---- MODULE Spec2Model ----
(***************************************************************************)
(* Intent router, reply classifier, campaign tracker, e-mail generation    *)
(* and campaign endpoints of the adaptive agent system (backend/app), the  *)
(* construction of the LLM agents and the audio endpoint of the voice test *)
(* server.  Python strings are modelled as                                 *)
(* sequences of one-character strings, so that substring tests, lower()    *)
(* and the e-mail regular expression are computed character by character.  *)
(***************************************************************************)
EXTENDS Integers, Sequences, FiniteSets, TLC

VARIABLES
  task,          \* the task string handed to LocalAutoAgent.route_and_process
  route_pc,      \* "idle" before the call, "done" after it
  route_result,  \* what the call produced (NoResult before the call)
  email_body,    \* the reply body handed to AdvancedEmailAgent.analyze_response
  analysis,      \* the dict analyze_response returned (NoResult before the call)
  prospect_status, \* AdvancedEmailAgent.prospect_status: address -> record
  bulk,          \* the locals of the send_bulk_emails call in progress (or last ended)
  stats,         \* what the last get_campaign_stats call returned
  monitored,     \* the inbox message monitor_inbox_for_replies read last, while no
                 \* send or unsubscribe call was made since (NoMessage otherwise)
  calls,         \* the calls handle_response made for the message in monitored
  request,       \* the call or HTTP request an e-mail generation is made for
  response,      \* what that call or request was answered with (NoResult before)
  ADVANCED_EMAIL_AVAILABLE, \* api/agents.py 15-19: whether the import of
                 \* AdvancedEmailAgent succeeded when the API module was loaded
  agent_call,    \* the constructor call of adaptive_agent.py made last
  agent,         \* the object that call yielded (NoAgent when it raised)
  voice_agent,   \* voice_test_server.py: the global voice_agent
  process_audio, \* the /voice/process-audio requests: where each one stands
                 \* and its local original_provider
  startup_stt_provider \* voice_agent.stt_provider when startup_event returned

routerVars == <<task, route_pc, route_result>>
classifierVars == <<email_body, analysis>>
campaignVars == <<prospect_status, bulk, stats, monitored, calls>>
outreachVars == <<request, response, ADVANCED_EMAIL_AVAILABLE>>
agentVars == <<agent_call, agent>>
voiceVars == <<voice_agent, process_audio, startup_stt_provider>>
vars == <<task, route_pc, route_result, email_body, analysis, prospect_status, bulk, stats, monitored, calls, request,
          response, ADVANCED_EMAIL_AVAILABLE, agent_call, agent, voice_agent, process_audio,
          startup_stt_provider>>

\* ------------------------------------------------------------------------
\* Python string primitives
\* ------------------------------------------------------------------------
UpperChars == <<"A","B","C","D","E","F","G","H","I","J","K","L","M",
                "N","O","P","Q","R","S","T","U","V","W","X","Y","Z">>
LowerChars == <<"a","b","c","d","e","f","g","h","i","j","k","l","m",
                "n","o","p","q","r","s","t","u","v","w","x","y","z">>
DigitChars == {"0","1","2","3","4","5","6","7","8","9"}
Letters == {UpperChars[i] : i \in 1..Len(UpperChars)} \cup {LowerChars[i] : i \in 1..Len(LowerChars)}

\* str.lower() on one character
LowerChar(c) ==
  IF \E i \in 1..Len(UpperChars) : UpperChars[i] = c
  THEN LowerChars[CHOOSE i \in 1..Len(UpperChars) : UpperChars[i] = c]
  ELSE c

\* str.lower()
lower(s) == [i \in 1..Len(s) |-> LowerChar(s[i])]

\* a keyword test that only accepts whole words: the occurrence must not touch
\* a letter or digit on either side
InWholeWord(k, s) ==
  \E off \in 0..(Len(s) - Len(k)) :
    /\ \A j \in 1..Len(k) : s[off + j] = k[j]
    /\ off >= 1 => s[off] \notin {LowerChars[i] : i \in 1..Len(LowerChars)} \cup {UpperChars[i] : i \in 1..Len(UpperChars)}
    /\ off + Len(k) + 1 <= Len(s)
         => s[off + Len(k) + 1] \notin {LowerChars[i] : i \in 1..Len(LowerChars)} \cup {UpperChars[i] : i \in 1..Len(UpperChars)}

\* Python's `k in s` on strings: k occurs in s as a contiguous substring
In(k, s) ==
  \E off \in 0..(Len(s) - Len(k)) : \A j \in 1..Len(k) : s[off + j] = k[j]

\* any(k in s for k in table)
AnyIn(table, s) == \E n \in 1..Len(table) : In(table[n], s)

\* sum(1 for k in table if k in s)
CountIn(table, s) == Cardinality({n \in 1..Len(table) : In(table[n], s)})

\* concatenation of a sequence of strings
RECURSIVE Concat(_)
Concat(parts) == IF parts = <<>> THEN <<>> ELSE Head(parts) \o Concat(Tail(parts))

\* ------------------------------------------------------------------------
\* Values shared by the handlers' results
\* ------------------------------------------------------------------------
NoResult == [kind |-> "none"]
Absent == "<absent>"        \* a key the returned dict does not carry
AbsentText == <<"<absent>">>  \* the same, where the value would be a string of characters
NoError == "<none>"         \* the call returned

\* ------------------------------------------------------------------------
\* LocalAutoAgent: keyword tables of the router (local_ai_agents.py)
\* ------------------------------------------------------------------------
\* route_and_process: email-specific routing phrases (the last one is the bare "@")
EmailRoutePhrases ==
  << <<"s","e","n","d"," ","e","m","a","i","l">>,
     <<"w","r","i","t","e"," ","e","m","a","i","l">>,
     <<"e","m","a","i","l"," ","t","o">>,
     <<"c","o","m","p","o","s","e"," ","e","m","a","i","l">>,
     <<"d","r","a","f","t"," ","e","m","a","i","l">>,
     <<"c","r","e","a","t","e"," ","e","m","a","i","l">>,
     <<"g","e","n","e","r","a","t","e"," ","e","m","a","i","l">>,
     <<"@">> >>

\* route_and_process: sales routing keywords
SalesRouteWords ==
  << <<"q","u","a","l","i","f","y">>,
     <<"l","e","a","d">>,
     <<"p","r","o","s","p","e","c","t">>,
     <<"o","b","j","e","c","t","i","o","n">>,
     <<"d","i","s","c","o","v","e","r","y">>,
     <<"s","a","l","e","s">>,
     <<"c","a","l","l">>,
     <<"m","e","e","t","i","n","g">>,
     <<"c","l","o","s","e">>,
     <<"p","i","p","e","l","i","n","e">>,
     <<"q","u","o","t","a">>,
     <<"c","o","n","v","e","r","s","i","o","n">> >>

\* route_and_process: email marketing/strategy keywords
EmailMarketingWords ==
  << <<"o","u","t","r","e","a","c","h">>,
     <<"s","e","q","u","e","n","c","e">>,
     <<"s","u","b","j","e","c","t">>,
     <<"c","a","m","p","a","i","g","n">>,
     <<"c","o","l","d">>,
     <<"f","o","l","l","o","w","-","u","p">>,
     <<"t","e","m","p","l","a","t","e">> >>

\* _handle_email_request: bulk email request phrases
BulkEmailPhrases ==
  << <<"e","m","a","i","l"," ","l","i","s","t">>,
     <<"b","u","l","k"," ","e","m","a","i","l">>,
     <<"m","a","s","s"," ","e","m","a","i","l">>,
     <<"s","e","n","d"," ","t","o"," ","a","l","l">>,
     <<"e","m","a","i","l"," ","c","a","m","p","a","i","g","n">>,
     <<"p","r","o","s","p","e","c","t"," ","l","i","s","t">>,
     <<"m","u","l","t","i","p","l","e"," ","e","m","a","i","l","s">> >>

\* _handle_email_request: automatic sending phrases
AutoSendPhrases ==
  << <<"a","c","t","u","a","l","l","y"," ","s","e","n","d">>,
     <<"s","e","n","d"," ","a","u","t","o","m","a","t","i","c","a","l","l","y">>,
     <<"a","u","t","o"," ","s","e","n","d">>,
     <<"s","e","n","d"," ","n","o","w">> >>

\* module flag set by the import of simple_email_sender (stdlib imports only)
EMAIL_SENDING_AVAILABLE == TRUE

\* ------------------------------------------------------------------------
\* The e-mail regular expression of _handle_email_request:
\*   \b[A-Za-z0-9._%+-]+@[A-Za-z0-9.-]+\.[A-Z|a-z]{2,}\b
\* ------------------------------------------------------------------------
WordChars == Letters \cup DigitChars \cup {"_"}                       \* \w
LocalChars == Letters \cup DigitChars \cup {".", "_", "%", "+", "-"}  \* [A-Za-z0-9._%+-]
DomainChars == Letters \cup DigitChars \cup {".", "-"}                \* [A-Za-z0-9.-]
TldChars == Letters \cup {"|"}                                        \* [A-Z|a-z]

WordAt(s, i) == i >= 1 /\ i <= Len(s) /\ s[i] \in WordChars

\* \b just before position i (between s[i-1] and s[i])
Boundary(s, i) == WordAt(s, i - 1) # WordAt(s, i)

\* first position >= i whose character is outside the class (Len(s)+1 if none)
RunEnd(s, i, class) ==
  LET stops == {p \in i..Len(s) : s[p] \notin class}
  IN IF stops = {} THEN Len(s) + 1
     ELSE CHOOSE p \in stops : \A q \in stops : p <= q

\* the <<dot, end>> pairs with which the pattern matches from start i
EmailMatches(s, i) ==
  LET at == RunEnd(s, i, LocalChars)          \* greedy local part stops here
  IN IF ~(Boundary(s, i) /\ at > i /\ at <= Len(s) /\ s[at] = "@") THEN {}
     ELSE LET domEnd == RunEnd(s, at + 1, DomainChars)
          IN { de \in ((at + 2)..(domEnd - 1)) \X ((at + 4)..Len(s)) :
                 /\ s[de[1]] = "."
                 /\ de[2] >= de[1] + 2
                 /\ de[2] < RunEnd(s, de[1] + 1, TldChars)
                 /\ Boundary(s, de[2] + 1) }

\* the match the greedy quantifiers settle on: longest domain, then longest tld
EmailMatchEnd(s, i) ==
  LET ms == EmailMatches(s, i)
      best == CHOOSE de \in ms :
                \A o \in ms : o[1] < de[1] \/ (o[1] = de[1] /\ o[2] <= de[2])
  IN best[2]

\* re.findall(email_pattern, task)[0]; <<>> stands for "emails is empty"
FirstEmail(s) ==
  LET starts == {i \in 1..Len(s) : EmailMatches(s, i) # {}}
  IN IF starts = {} THEN <<>>
     ELSE LET i == CHOOSE p \in starts : \A q \in starts : p <= q
          IN SubSeq(s, i, EmailMatchEnd(s, i))

\* ------------------------------------------------------------------------
\* LocalEmailAgent.generate_email, as far as the router depends on it: the
\* subject line is random.choice(subject_lines["cold"]).format(...), and
\* str.format raises KeyError for a placeholder that is not supplied.
\* ------------------------------------------------------------------------
cold_subject_lines ==
  << {"company"},                      \* "Quick question about {company}"
     {"name", "trigger_event"},        \* "{name}, noticed {trigger_event}"
     {"pain_point"},                   \* "5-min chat about {pain_point}?"
     {"company", "solution"},          \* "{company} + {solution} = ?"
     {"similar_company", "result"} >>  \* "Helping {similar_company} with {result}"

SubjectFormatArgs == {"company", "name", "trigger_event", "pain_point", "solution"}

\* the error generate_email ends with when random.choice picks line `pick`
generate_email_error(pick) ==
  IF cold_subject_lines[pick] \subseteq SubjectFormatArgs THEN NoError ELSE "KeyError"

\* ------------------------------------------------------------------------
\* LocalAutoAgent handlers
\* ------------------------------------------------------------------------
DefaultRecipient == <<"r","e","c","i","p","i","e","n","t","@","c","o","m","p","a","n","y",".","c","o","m">>

Result(handler, routed_to, recipient, success, error) ==
  [kind |-> "result", handler |-> handler, routed_to |-> routed_to,
   recipient |-> recipient, success |-> success, error |-> error]

_handle_bulk_email_request(t) ==
  Result("_handle_bulk_email_request", "BULK_EMAIL_AUTOMATION", AbsentText, TRUE, NoError)

_handle_automatic_email_sending(t) ==
  IF ~EMAIL_SENDING_AVAILABLE
  THEN Result("_handle_automatic_email_sending", Absent, AbsentText, FALSE, NoError)
  ELSE IF FirstEmail(t) = <<>>
  THEN Result("_handle_automatic_email_sending", Absent, AbsentText, FALSE, NoError)
  ELSE Result("_handle_automatic_email_sending", Absent, FirstEmail(t), TRUE, NoError)

_handle_email_request(t, pick) ==
  IF AnyIn(BulkEmailPhrases, lower(t)) THEN _handle_bulk_email_request(t)
  ELSE IF AnyIn(AutoSendPhrases, lower(t)) THEN _handle_automatic_email_sending(t)
  ELSE LET recipient_email == IF FirstEmail(t) # <<>> THEN FirstEmail(t) ELSE DefaultRecipient
           err == generate_email_error(pick)
       IN IF err # NoError
          THEN Result("_handle_email_request", Absent, AbsentText, FALSE, err)
          ELSE Result("_handle_email_request", "EMAIL_GENERATION", recipient_email, TRUE, NoError)

\* LocalSalesAgent.process_task / LocalEmailAgent.process_task catch every
\* exception themselves and return a dict; the router then sets routed_to.
sales_process_task(t) == Result("sales_agent.process_task", "SALES", AbsentText, TRUE, NoError)
email_process_task(t) == Result("email_agent.process_task", "EMAIL", AbsentText, TRUE, NoError)
\* the default branch labelled as the branch above it
general_advice_labelled_email(t) == Result("_general_business_advice", "EMAIL", AbsentText, TRUE, NoError)

\* a default handler that indexes into the words of the task
general_advice_first_word(t) ==
  IF \A i \in 1..Len(t) : t[i] \in {" ", "\t", "\n"}
  THEN Result("_general_business_advice", Absent, AbsentText, FALSE, "IndexError")
  ELSE Result("_general_business_advice", "GENERAL", AbsentText, TRUE, NoError)

_general_business_advice(t) == Result("_general_business_advice", "GENERAL", AbsentText, TRUE, NoError)

\* the cascade with the sales keywords tested before the e-mail phrases
route_sales_first(t, pick) ==
  LET task_lower == lower(t)
  IN IF AnyIn(SalesRouteWords, task_lower) THEN sales_process_task(t)
     ELSE IF AnyIn(EmailRoutePhrases, task_lower) THEN _handle_email_request(t, pick)
     ELSE IF AnyIn(EmailMarketingWords, task_lower) THEN email_process_task(t)
     ELSE _general_business_advice(t)

\* the cascade with the e-mail marketing keywords tested before the sales keywords
route_marketing_first(t, pick) ==
  LET task_lower == lower(t)
  IN IF AnyIn(EmailRoutePhrases, task_lower) THEN _handle_email_request(t, pick)
     ELSE IF AnyIn(EmailMarketingWords, task_lower) THEN email_process_task(t)
     ELSE IF AnyIn(SalesRouteWords, task_lower) THEN sales_process_task(t)
     ELSE _general_business_advice(t)

route_and_process(t, pick) ==
  LET task_lower == lower(t)
  IN IF AnyIn(EmailRoutePhrases, task_lower) THEN _handle_email_request(t, pick)
     ELSE IF AnyIn(SalesRouteWords, task_lower) THEN sales_process_task(t)
     ELSE IF AnyIn(EmailMarketingWords, task_lower) THEN email_process_task(t)
     ELSE _general_business_advice(t)

\* ------------------------------------------------------------------------
\* Inputs of the router: tasks put together from a vocabulary of fragments
\* ------------------------------------------------------------------------
MaxTaskFrags == 3

TaskVocab ==
  { <<"s","e","n","d"," ","e","m","a","i","l"," ","t","o"," ">>,
    <<"j","o","h","n","@","a","c","m","e",".","c","o","m">>,
    <<" ","a","b","o","u","t"," ","o","u","r"," ","d","e","m","o">>,
    <<"C","a","l","l">>,
    <<"o","u","t","r","e","a","c","h">>,
    <<" ">>,
    <<"\t">>,
    <<"h","e","l","l","o">>,
    <<"b","u","l","k"," ","e","m","a","i","l">>,
    <<"s","e","n","d"," ","n","o","w">> }

Tasks == UNION { {Concat(p) : p \in [1..n -> TaskVocab]} : n \in 0..MaxTaskFrags }

\* ------------------------------------------------------------------------
\* The router as a state machine: one request per behaviour
\* ------------------------------------------------------------------------
RouterInit ==
  /\ task \in Tasks
  /\ route_pc = "idle"
  /\ route_result = NoResult

RouterOff ==
  /\ task = <<>>
  /\ route_pc = "off"
  /\ route_result = NoResult

\* POST /execute without agent_type: auto_agent.route_and_process(task)
RouteAndProcess ==
  /\ route_pc = "idle"
  /\ \E pick \in 1..Len(cold_subject_lines) :
       route_result' = route_and_process(task, pick)
  /\ route_pc' = "done"
  /\ UNCHANGED <<task, classifierVars, campaignVars, outreachVars, agentVars, voiceVars>>

\* ------------------------------------------------------------------------
\* Properties of the router
\* ------------------------------------------------------------------------
EmailSendPhrases == SubSeq(EmailRoutePhrases, 1, 7)   \* the phrases without the bare "@"
HasEmailSendPhrase(t) == AnyIn(EmailSendPhrases, lower(t))
HasAtSign(t) == \E i \in 1..Len(t) : t[i] = "@"
HasSalesWord(t) == AnyIn(SalesRouteWords, lower(t))
HasMarketingWord(t) == AnyIn(EmailMarketingWords, lower(t))
IsBlank(t) == \A i \in 1..Len(t) : t[i] \in {" ", "\t", "\n"}

EmailHandlers ==
  {"_handle_email_request", "_handle_bulk_email_request", "_handle_automatic_email_sending"}

ScenarioTask == <<"s","e","n","d"," ","e","m","a","i","l"," ","t","o"," ","j","o","h","n","@","a","c","m","e",".","c","o","m"," ","a","b","o","u","t"," ","o","u","r"," ","d","e","m","o">>
ScenarioRecipient == <<"j","o","h","n","@","a","c","m","e",".","c","o","m">>

\* C1: a task with an e-mail-send phrase and a sales keyword is given to the
\* e-mail handler, never to the sales handler (routed_to is not SALES).
C1_EmailPhraseBeatsSalesKeyword ==
  (route_pc = "done" /\ HasEmailSendPhrase(task) /\ HasSalesWord(task))
    => /\ route_result.handler \in EmailHandlers
       /\ route_result.routed_to # "SALES"

C1_Witness ==
  /\ route_pc = "done"
  /\ HasEmailSendPhrase(task) /\ HasSalesWord(task) /\ ~HasAtSign(task)
  /\ route_result.handler = "_handle_email_request"

\* C4: the groups are tried in the order e-mail phrases, sales keywords,
\* e-mail marketing keywords and the first match wins: without an e-mail phrase
\* or "@", sales plus marketing keywords give SALES and marketing keywords
\* alone give EMAIL.
C4_RouterOrder ==
  route_pc = "done" =>
    /\ (HasEmailSendPhrase(task) \/ HasAtSign(task))
         => route_result.handler \in EmailHandlers
    /\ (~HasEmailSendPhrase(task) /\ ~HasAtSign(task) /\ HasSalesWord(task))
         => route_result.routed_to = "SALES"
    /\ (~HasEmailSendPhrase(task) /\ ~HasAtSign(task) /\ ~HasSalesWord(task)
          /\ HasMarketingWord(task))
         => route_result.routed_to = "EMAIL"

C4_Witness ==
  /\ route_pc = "done"
  /\ ~HasEmailSendPhrase(task) /\ ~HasAtSign(task)
  /\ HasSalesWord(task) /\ HasMarketingWord(task)
  /\ route_result.routed_to = "SALES"

\* C5: a task that matches no e-mail phrase, holds no "@" and matches no sales
\* or marketing keyword goes to the general handler (routed_to = GENERAL).
C5_DefaultIsGeneral ==
  (route_pc = "done" /\ ~HasEmailSendPhrase(task) /\ ~HasAtSign(task)
     /\ ~HasSalesWord(task) /\ ~HasMarketingWord(task))
    => /\ route_result.handler = "_general_business_advice"
       /\ route_result.routed_to = "GENERAL"

C5_Witness ==
  /\ route_pc = "done"
  /\ ~IsBlank(task)
  /\ ~HasEmailSendPhrase(task) /\ ~HasAtSign(task)
  /\ ~HasSalesWord(task) /\ ~HasMarketingWord(task)
  /\ route_result.routed_to = "GENERAL"

\* C6: the empty task and every whitespace-only task is routed to the general
\* handler and the call returns a result, it does not raise.
C6_BlankTaskIsGeneral ==
  (route_pc = "done" /\ IsBlank(task))
    => /\ route_result.routed_to = "GENERAL"
       /\ route_result.error = NoError
       /\ route_result.success

C6_Witness ==
  /\ route_pc = "done"
  /\ Len(task) >= 2 /\ IsBlank(task)
  /\ \E i \in 1..Len(task) : task[i] = "\t"
  /\ route_result.routed_to = "GENERAL"

\* C7: every task that holds "@" is routed to e-mail handling, and the task
\* "send email to john@acme.com about our demo" is handled by the e-mail-send
\* handler, which returns john@acme.com as the recipient.
C7_AtSignIsEmailAndScenarioHandled ==
  (route_pc = "done" /\ HasAtSign(task))
    => /\ route_result.handler \in EmailHandlers
       /\ task = ScenarioTask
            => /\ route_result.handler = "_handle_email_request"
               /\ route_result.error = NoError
               /\ route_result.recipient = ScenarioRecipient

\* ------------------------------------------------------------------------
\* AdvancedEmailAgent.analyze_response (advanced_email_agent.py)
\* ------------------------------------------------------------------------
\* analyze_response: interest indicators
interest_keywords ==
  << <<"i","n","t","e","r","e","s","t","e","d">>,
     <<"t","e","l","l"," ","m","e"," ","m","o","r","e">>,
     <<"s","c","h","e","d","u","l","e">>,
     <<"c","a","l","l">>,
     <<"m","e","e","t","i","n","g">>,
     <<"d","e","m","o">>,
     <<"l","e","a","r","n"," ","m","o","r","e">>,
     <<"s","o","u","n","d","s"," ","g","o","o","d">> >>

\* analyze_response: not-interested indicators
not_interested_keywords ==
  << <<"n","o","t"," ","i","n","t","e","r","e","s","t","e","d">>,
     <<"n","o"," ","t","h","a","n","k"," ","y","o","u">>,
     <<"r","e","m","o","v","e">>,
     <<"u","n","s","u","b","s","c","r","i","b","e">>,
     <<"s","t","o","p">>,
     <<"n","o","t"," ","l","o","o","k","i","n","g">> >>

\* analyze_response: question indicators
question_keywords ==
  << <<"h","o","w">>,
     <<"w","h","a","t">>,
     <<"w","h","e","n">>,
     <<"w","h","e","r","e">>,
     <<"w","h","y">>,
     <<"c","a","n"," ","y","o","u">>,
     <<"c","o","u","l","d"," ","y","o","u">>,
     <<"?">> >>

\* analyze_response: timing indicators
timing_keywords ==
  << <<"n","o","t"," ","r","i","g","h","t"," ","n","o","w">>,
     <<"m","a","y","b","e"," ","l","a","t","e","r">>,
     <<"n","e","x","t"," ","q","u","a","r","t","e","r">>,
     <<"n","e","x","t"," ","y","e","a","r">>,
     <<"b","u","s","y">>,
     <<"t","i","m","i","n","g">> >>

\* the cascade with the interest test ahead of the not-interested test
analyze_interest_first(b) ==
  LET body_lower == lower(b)
      interest_score == CountIn(interest_keywords, body_lower)
      not_interested_score == CountIn(not_interested_keywords, body_lower)
      question_score == CountIn(question_keywords, body_lower)
      timing_score == CountIn(timing_keywords, body_lower)
      verdict ==
        IF interest_score > 0 THEN <<"interested", 8>>
        ELSE IF not_interested_score > 0 THEN <<"not_interested", 9>>
        ELSE IF question_score > 0 THEN <<"has_questions", 7>>
        ELSE IF timing_score > 0 THEN <<"bad_timing", 7>>
        ELSE <<"neutral", 5>>
  IN [kind |-> "analysis", category |-> verdict[1], confidence |-> verdict[2],
      interest_score |-> interest_score, question_score |-> question_score,
      body |-> b]

\* a classifier that lets the largest score win (ties in the priority order)
\* and derives the confidence from that score
analyze_by_highest_score(b) ==
  LET body_lower == lower(b)
      interest_score == CountIn(interest_keywords, body_lower)
      not_interested_score == CountIn(not_interested_keywords, body_lower)
      question_score == CountIn(question_keywords, body_lower)
      timing_score == CountIn(timing_keywords, body_lower)
      top == CHOOSE x \in {interest_score, not_interested_score, question_score, timing_score} :
               \A y \in {interest_score, not_interested_score, question_score, timing_score} : y <= x
      category ==
        IF top = 0 THEN "neutral"
        ELSE IF not_interested_score = top THEN "not_interested"
        ELSE IF interest_score = top THEN "interested"
        ELSE IF question_score = top THEN "has_questions"
        ELSE "bad_timing"
      confidence == IF 5 + top > 9 THEN 9 ELSE 5 + top
  IN [kind |-> "analysis", category |-> category, confidence |-> confidence,
      interest_score |-> interest_score, question_score |-> question_score,
      body |-> b]

\* a classifier that consults the agent's map: once some prospect is marked
\* unsubscribed, interest is no longer taken at face value
analyze_response_by_history(b) ==
  LET body_lower == lower(b)
      interest_score == CountIn(interest_keywords, body_lower)
      not_interested_score == CountIn(not_interested_keywords, body_lower)
      question_score == CountIn(question_keywords, body_lower)
      timing_score == CountIn(timing_keywords, body_lower)
      wary == \E e \in DOMAIN prospect_status : prospect_status[e].unsubscribed = "True"
      verdict ==
        IF not_interested_score > 0 THEN <<"not_interested", 9>>
        ELSE IF interest_score > 0 THEN <<"interested", IF wary THEN 6 ELSE 8>>
        ELSE IF question_score > 0 THEN <<"has_questions", 7>>
        ELSE IF timing_score > 0 THEN <<"bad_timing", 7>>
        ELSE <<"neutral", 5>>
  IN [kind |-> "analysis", category |-> verdict[1], confidence |-> verdict[2],
      interest_score |-> interest_score, question_score |-> question_score,
      body |-> b]

\* confidence is kept in tenths: 9 stands for 0.9
analyze_response(b) ==
  LET body_lower == lower(b)
      interest_score == CountIn(interest_keywords, body_lower)
      not_interested_score == CountIn(not_interested_keywords, body_lower)
      question_score == CountIn(question_keywords, body_lower)
      timing_score == CountIn(timing_keywords, body_lower)
      verdict ==
        IF not_interested_score > 0 THEN <<"not_interested", 9>>
        ELSE IF interest_score > 0 THEN <<"interested", 8>>
        ELSE IF question_score > 0 THEN <<"has_questions", 7>>
        ELSE IF timing_score > 0 THEN <<"bad_timing", 7>>
        ELSE <<"neutral", 5>>
  IN [kind |-> "analysis", category |-> verdict[1], confidence |-> verdict[2],
      interest_score |-> interest_score, question_score |-> question_score,
      body |-> b]

\* ------------------------------------------------------------------------
\* Inputs of the classifier: reply bodies put together from fragments
\* ------------------------------------------------------------------------
MaxBodyFrags == 3

BodyVocab ==
  { <<"N","o","t"," ","i","n","t","e","r","e","s","t","e","d">>,
    <<","," ","p","l","e","a","s","e"," ","r","e","m","o","v","e"," ","m","e">>,
    <<"S","o","u","n","d","s"," ","g","o","o","d">>,
    <<","," ","c","a","n"," ","w","e"," ","s","c","h","e","d","u","l","e"," ","a"," ","c","a","l","l","?">>,
    <<"s","h","o","w","h","o","w">>,
    <<"m","a","y","b","e"," ","l","a","t","e","r">>,
    <<"t","h","a","n","k","s">>,
    <<"S","T","O","P">> }

Bodies == UNION { {Concat(p) : p \in [1..n -> BodyVocab]} : n \in 0..MaxBodyFrags }

ClassifierInit ==
  /\ email_body \in Bodies
  /\ analysis = NoResult

ClassifierOff ==
  /\ email_body = <<>>
  /\ analysis = [kind |-> "off"]

\* monitor_inbox_for_replies, line 207: the body of a reply is analysed
AnalyzeResponse ==
  /\ analysis = NoResult
  /\ analysis' = analyze_response(email_body)
  /\ UNCHANGED <<email_body, routerVars, campaignVars, outreachVars, agentVars, voiceVars>>

\* ------------------------------------------------------------------------
\* Properties of the reply classifier
\* ------------------------------------------------------------------------
NotInterestedScore(b) == CountIn(not_interested_keywords, lower(b))
InterestScore(b) == CountIn(interest_keywords, lower(b))
QuestionScore(b) == CountIn(question_keywords, lower(b))
TimingScore(b) == CountIn(timing_keywords, lower(b))

\* the constant attached to each category, in tenths
ConfidenceOf(category) ==
  CASE category = "not_interested" -> 9
    [] category = "interested" -> 8
    [] category = "has_questions" -> 7
    [] category = "bad_timing" -> 7
    [] category = "neutral" -> 5

\* k occurs in s at some position, whatever stands next to it
OccursAnywhere(k, s) ==
  \E i \in 1..(Len(s) - Len(k) + 1) : SubSeq(s, i, i + Len(k) - 1) = k

BodyNotInterestedRemove == <<"N","o","t"," ","i","n","t","e","r","e","s","t","e","d",","," ","p","l","e","a","s","e"," ","r","e","m","o","v","e"," ","m","e">>
BodySoundsGood == <<"S","o","u","n","d","s"," ","g","o","o","d",","," ","c","a","n"," ","w","e"," ","s","c","h","e","d","u","l","e"," ","a"," ","c","a","l","l","?">>
BodyShowhow == <<"s","h","o","w","h","o","w">>

\* C2: a body with any not-interested keyword is classified not_interested,
\* whatever its interest, question and timing counts; "Not interested, please
\* remove me" gives not_interested with confidence 0.9.
C2_NotInterestedOverrides ==
  analysis.kind = "analysis" =>
    /\ NotInterestedScore(email_body) > 0 => analysis.category = "not_interested"
    /\ email_body = BodyNotInterestedRemove
         => analysis.category = "not_interested" /\ analysis.confidence = 9

C2_Witness ==
  /\ analysis.kind = "analysis"
  /\ NotInterestedScore(email_body) = 1
  /\ analysis.interest_score >= 3
  /\ analysis.question_score >= 1
  /\ analysis.category = "not_interested"

\* C3: the category is that of the first keyword set with a positive score in
\* the order not-interested, interested, has-questions, bad-timing, and neutral
\* when all four scores are zero, whichever score is larger; the confidence is
\* the constant of the category (0.9, 0.8, 0.7, 0.7, 0.5).
C3_FixedPriorityConstantConfidence ==
  analysis.kind = "analysis" =>
    /\ analysis.category =
         ( IF NotInterestedScore(email_body) > 0 THEN "not_interested"
           ELSE IF InterestScore(email_body) > 0 THEN "interested"
           ELSE IF QuestionScore(email_body) > 0 THEN "has_questions"
           ELSE IF TimingScore(email_body) > 0 THEN "bad_timing"
           ELSE "neutral" )
    /\ analysis.confidence = ConfidenceOf(analysis.category)
    /\ email_body = BodySoundsGood
         => analysis.category = "interested" /\ analysis.confidence = 8

C3_Witness ==
  /\ analysis.kind = "analysis"
  /\ NotInterestedScore(email_body) > 0
  /\ analysis.interest_score > NotInterestedScore(email_body)
  /\ analysis.category = "not_interested"
  /\ analysis.confidence = 9

\* C8: a keyword counts whenever it occurs anywhere in the lower-cased body,
\* without regard to word boundaries; "showhow" gets a positive question score
\* and is classified has_questions.
C8_SubstringMatching ==
  analysis.kind = "analysis" =>
    /\ analysis.question_score =
         Cardinality({n \in 1..Len(question_keywords) :
                        OccursAnywhere(question_keywords[n], lower(email_body))})
    /\ analysis.interest_score =
         Cardinality({n \in 1..Len(interest_keywords) :
                        OccursAnywhere(interest_keywords[n], lower(email_body))})
    /\ email_body = BodyShowhow
         => analysis.question_score > 0 /\ analysis.category = "has_questions"

C8_Witness ==
  /\ analysis.kind = "analysis"
  /\ email_body = BodyShowhow
  /\ analysis.question_score = 1
  /\ analysis.category = "has_questions"

\* C23: the result of analyze_response carries, next to category and
\* confidence, the raw scores counted for the four keyword sets: the
\* interest, not-interested, question and timing counts.
C23_AllRawScoresReturned ==
  analysis.kind = "analysis" =>
    /\ {"category", "confidence"} \subseteq DOMAIN analysis
    /\ {"interest_score", "not_interested_score", "question_score", "timing_score"}
         \subseteq DOMAIN analysis

\* ------------------------------------------------------------------------
\* Prospects.  A prospect is a dict; Missing marks a key the dict does not
\* have, None a key whose value is None (csv.DictReader fills the columns a
\* short row lacks with None).
\* ------------------------------------------------------------------------
Missing == <<"<missing>">>
None == <<"<None>">>

AddrA == <<"a","@","x",".","i","o">>
AddrB == <<"b","@","y",".","i","o">>
AddrC == <<"c","@","z",".","i","o">>

ProspectPool ==
  { [email |-> AddrA, name |-> <<"A","n","n">>, company |-> <<"A","c","m","e">>, role |-> <<"C","E","O">>],
    [email |-> AddrB, name |-> <<"B","o","b">>, company |-> <<"B","e","t","a">>, role |-> <<"V","P"," ","S","a","l","e","s">>],
    [email |-> AddrC, name |-> <<"C","y">>, company |-> <<"C","o","r","e">>, role |-> None],
    [email |-> Missing, name |-> <<"D","a","n">>, company |-> <<"D","e","l","t","a">>, role |-> <<"B","u","y","e","r">>] }

MaxProspects == 2

ProspectLists == UNION { [1..n -> ProspectPool] : n \in 0..MaxProspects }

\* ------------------------------------------------------------------------
\* AdvancedEmailAgent.generate_personalized_email
\* ------------------------------------------------------------------------
role_template_keys == << <<"c","e","o">>, <<"v","p">>, <<"d","e","f","a","u","l","t">> >>

\* a selection that lets a later key of the templates dict override an earlier one
select_role_key_last(role) ==
  LET hits == {n \in 1..Len(role_template_keys) : In(role_template_keys[n], lower(role))}
  IN IF hits = {} THEN "default"
     ELSE LET n == CHOOSE x \in hits : \A y \in hits : x >= y
          IN IF n = 1 THEN "ceo" ELSE IF n = 2 THEN "vp" ELSE "default"

\* the first key of the templates dict that occurs in the lower-cased role
select_role_key(role) ==
  LET hits == {n \in 1..Len(role_template_keys) : In(role_template_keys[n], lower(role))}
  IN IF hits = {} THEN "default"
     ELSE LET n == CHOOSE x \in hits : \A y \in hits : x <= y
          IN IF n = 1 THEN "ceo" ELSE IF n = 2 THEN "vp" ELSE "default"

\* the templates dict reads prospect['company'] and prospect['name'], the
\* selection prospect['role'].lower(), the result prospect['email']
generate_personalized_email(prospect) ==
  IF prospect.company = Missing \/ prospect.name = Missing \/ prospect.role = Missing
  THEN [error |-> "KeyError", subject |-> Absent, recipient |-> AbsentText]
  ELSE IF prospect.role = None
  THEN [error |-> "AttributeError", subject |-> Absent, recipient |-> AbsentText]
  ELSE IF prospect.email = Missing
  THEN [error |-> "KeyError", subject |-> Absent, recipient |-> AbsentText]
  ELSE [error |-> NoError, subject |-> select_role_key(prospect.role),
        recipient |-> prospect.email]

\* ------------------------------------------------------------------------
\* AdvancedEmailAgent.send_bulk_emails, one loop iteration per step
\* ------------------------------------------------------------------------
NoTemplate == [name |-> "none", subject |-> {}, body |-> {}]

BulkIdle ==
  [pc |-> "idle", agent |-> "none", prospects |-> <<>>, template |-> NoTemplate, i |-> 1,
   connected |-> FALSE, attempted |-> <<>>, successful |-> <<>>, failed |-> <<>>,
   aborted_by |-> NoError, raised |-> NoError, events |-> <<>>, delay_seconds |-> 30]

\* delay_seconds: the default of send_bulk_emails and the default send_delay
\* of the /bulk-email/send request
DelayChoices == {30, 60}

NoMessage == [sender |-> AbsentText, body |-> AbsentText]

\* lines 127-134: connect, starttls, login; a failure is printed by the outer
\* except and the call returns.  The caller passes one of `lists` and one of
\* `delays`.
send_bulk_emails_connect(lists, delays) ==
  /\ bulk.pc # "loop"
  /\ \E ps \in lists, connects \in BOOLEAN, delay_seconds \in delays :
       bulk' = [BulkIdle EXCEPT !.agent = "advanced", !.prospects = ps,
                                !.delay_seconds = delay_seconds,
                                !.pc = IF connects THEN "loop" ELSE "done",
                                !.connected = connects,
                                !.aborted_by = IF connects THEN NoError ELSE "SMTPException"]
  /\ monitored' = NoMessage
  /\ calls' = <<>>
  /\ UNCHANGED <<prospect_status, stats, routerVars, classifierVars, outreachVars, agentVars, voiceVars>>

AdvSendBulkConnect == send_bulk_emails_connect(ProspectLists, DelayChoices)

\* the record line 156 stores for a prospect that was sent to
NoLastResponse == [category |-> Absent, body |-> AbsentText]

SentRecord(subject) ==
  [status |-> "sent", subject |-> subject, last_response |-> NoLastResponse,
   unsubscribed |-> Absent]

Put(map, key, value) ==
  [k \in DOMAIN map \cup {key} |-> IF k = key THEN value ELSE map[k]]

\* lines 169-171: the except arm of one iteration; its print reads
\* prospect['email'], and a KeyError raised there leaves the loop for the outer
\* except of line 180
AdvIterationFailed(b, prospect, events) ==
  IF prospect.email = Missing
  THEN [b EXCEPT !.attempted = Append(@, b.i), !.failed = Append(@, b.i),
                 !.events = events, !.pc = "done", !.aborted_by = "KeyError"]
  ELSE [b EXCEPT !.attempted = Append(@, b.i), !.failed = Append(@, b.i),
                 !.events = events, !.i = @ + 1]

\* a successful iteration that goes on to the next prospect at once
sent_without_sleep(recipient, delay_seconds) ==
  << <<"sendmail", recipient, "ok">> >>

\* lines 153-167: server.sendmail returns and, after the record and the
\* counter, time.sleep(delay_seconds)
sent_and_slept(recipient, delay_seconds) ==
  << <<"sendmail", recipient, "ok">>, <<"sleep", delay_seconds>> >>

\* lines 136-171: the body of the for loop for prospects[i]
AdvSendBulkIterate ==
  /\ bulk.pc = "loop" /\ bulk.agent = "advanced" /\ bulk.i <= Len(bulk.prospects)
  /\ LET prospect == bulk.prospects[bulk.i]
         email_content == generate_personalized_email(prospect)
     IN IF email_content.error # NoError
        THEN /\ bulk' = AdvIterationFailed(bulk, prospect, bulk.events)
             /\ UNCHANGED prospect_status
        ELSE \E accepted \in BOOLEAN :
               IF accepted
               THEN /\ prospect_status' =
                         Put(prospect_status, prospect.email, SentRecord(email_content.subject))
                    /\ bulk' = [bulk EXCEPT
                                  !.attempted = Append(@, bulk.i),
                                  !.successful = Append(@, bulk.i),
                                  !.events = @ \o sent_and_slept(prospect.email,
                                                                 bulk.delay_seconds),
                                  !.i = @ + 1]
               ELSE /\ bulk' = AdvIterationFailed(bulk, prospect,
                                  Append(bulk.events, <<"sendmail", prospect.email, "error">>))
                    /\ UNCHANGED prospect_status
  /\ UNCHANGED <<stats, monitored, calls, routerVars, classifierVars, outreachVars, agentVars, voiceVars>>

\* lines 173-178: server.quit() and the summary
AdvSendBulkQuit ==
  /\ bulk.pc = "loop" /\ bulk.agent = "advanced" /\ bulk.i > Len(bulk.prospects)
  /\ bulk' = [bulk EXCEPT !.pc = "done"]
  /\ UNCHANGED <<prospect_status, stats, monitored, calls, routerVars, classifierVars, outreachVars, agentVars, voiceVars>>

\* ------------------------------------------------------------------------
\* SimpleEmailSender
\* ------------------------------------------------------------------------
\* a subject and body template, each given by the placeholders it uses
TemplatePool ==
  { [name |-> "plain", subject |-> {"name", "company"}, body |-> {"name", "company", "role"}],
    [name |-> "role_subject", subject |-> {"role", "company"}, body |-> {"name"}] }

\* send_email: the try block returns the simulated success at once
send_email(recipient) == [success |-> TRUE, recipient |-> recipient, error |-> Absent]

\* lines 66-71: the results dict
SimpleSendBulkBegin ==
  /\ bulk.pc # "loop"
  /\ \E ps \in ProspectLists, tpl \in TemplatePool :
       bulk' = [BulkIdle EXCEPT !.agent = "simple", !.prospects = ps,
                                !.template = tpl, !.pc = "loop", !.connected = TRUE]
  /\ UNCHANGED <<prospect_status, stats, monitored, calls, routerVars, classifierVars, outreachVars, agentVars, voiceVars>>

\* the exception lines 75-92 raise before send_email is reached
simple_prepare_error(prospect, tpl) ==
  IF ~(tpl.body \subseteq {"name", "company", "role"}) THEN "KeyError"
  ELSE IF ~(tpl.subject \subseteq {"name", "company"}) THEN "KeyError"
  ELSE IF prospect.email = Missing THEN "KeyError"
  ELSE NoError

\* lines 73-102: the body of the for loop for prospects[i]; nothing catches
\* an exception of the personalisation, it leaves send_bulk_emails
SimpleSendBulkIterate ==
  /\ bulk.pc = "loop" /\ bulk.agent = "simple" /\ bulk.i <= Len(bulk.prospects)
  /\ LET prospect == bulk.prospects[bulk.i]
         err == simple_prepare_error(prospect, bulk.template)
     IN IF err # NoError
        THEN bulk' = [bulk EXCEPT !.attempted = Append(@, bulk.i),
                                  !.pc = "done", !.aborted_by = err, !.raised = err]
        ELSE LET result == send_email(prospect.email)
             IN IF result.success
                THEN bulk' = [bulk EXCEPT !.attempted = Append(@, bulk.i),
                                          !.successful = Append(@, bulk.i),
                                          !.events = Append(@, <<"send_email", prospect.email, "ok">>),
                                          !.i = @ + 1]
                ELSE bulk' = [bulk EXCEPT !.attempted = Append(@, bulk.i),
                                          !.failed = Append(@, bulk.i),
                                          !.events = Append(@, <<"send_email", prospect.email, "error">>),
                                          !.i = @ + 1]
  /\ UNCHANGED <<prospect_status, stats, monitored, calls, routerVars, classifierVars, outreachVars, agentVars, voiceVars>>

\* line 104: return results
SimpleSendBulkReturn ==
  /\ bulk.pc = "loop" /\ bulk.agent = "simple" /\ bulk.i > Len(bulk.prospects)
  /\ bulk' = [bulk EXCEPT !.pc = "done"]
  /\ UNCHANGED <<prospect_status, stats, monitored, calls, routerVars, classifierVars, outreachVars, agentVars, voiceVars>>

\* ------------------------------------------------------------------------
\* AdvancedEmailAgent.get_campaign_stats
\* ------------------------------------------------------------------------
\* a / b * 100 as the exact fraction (a * 100) / b; Python raises
\* ZeroDivisionError for b = 0
Percent(a, b) ==
  IF b = 0 THEN [num |-> 0, den |-> 0, error |-> "ZeroDivisionError"]
  ELSE [num |-> a * 100, den |-> b, error |-> NoError]

\* the literal 0 of the else arms
ZeroRate == [num |-> 0, den |-> 1, error |-> NoError]

\* both rates computed without the `if total_sent > 0` guard
get_campaign_stats_unguarded(ps) ==
  LET total_sent == Cardinality(DOMAIN ps)
      replied == Cardinality({e \in DOMAIN ps : ps[e].last_response # NoLastResponse})
      interested == Cardinality({e \in DOMAIN ps :
                                   /\ ps[e].last_response # NoLastResponse
                                   /\ ps[e].last_response.category = "interested"})
  IN [kind |-> "stats", total_sent |-> total_sent, total_replies |-> replied,
      interested_replies |-> interested,
      response_rate |-> Percent(replied, total_sent),
      interest_rate |-> Percent(interested, total_sent)]

\* statistics that do not count a refusal as a reply
get_campaign_stats_without_refusals(ps) ==
  LET total_sent == Cardinality(DOMAIN ps)
      replied == Cardinality({e \in DOMAIN ps :
                                /\ ps[e].last_response # NoLastResponse
                                /\ ps[e].last_response.category # "not_interested"})
      interested == Cardinality({e \in DOMAIN ps :
                                   /\ ps[e].last_response # NoLastResponse
                                   /\ ps[e].last_response.category = "interested"})
  IN [kind |-> "stats", total_sent |-> total_sent, total_replies |-> replied,
      interested_replies |-> interested,
      response_rate |-> IF total_sent > 0 THEN Percent(replied, total_sent) ELSE ZeroRate,
      interest_rate |-> IF total_sent > 0 THEN Percent(interested, total_sent) ELSE ZeroRate]

\* lines 401-418
get_campaign_stats(ps) ==
  LET total_sent == Cardinality(DOMAIN ps)
      replied == Cardinality({e \in DOMAIN ps : ps[e].last_response # NoLastResponse})
      interested == Cardinality({e \in DOMAIN ps :
                                   /\ ps[e].last_response # NoLastResponse
                                   /\ ps[e].last_response.category = "interested"})
  IN [kind |-> "stats", total_sent |-> total_sent, total_replies |-> replied,
      interested_replies |-> interested,
      response_rate |-> IF total_sent > 0 THEN Percent(replied, total_sent) ELSE ZeroRate,
      interest_rate |-> IF total_sent > 0 THEN Percent(interested, total_sent) ELSE ZeroRate]

\* a caller asks for the statistics between two bulk runs
GetCampaignStats ==
  /\ bulk.pc # "loop"
  /\ stats' = get_campaign_stats(prospect_status)
  /\ UNCHANGED <<prospect_status, bulk, monitored, calls, routerVars, classifierVars, outreachVars, agentVars, voiceVars>>

CampaignInit ==
  /\ prospect_status = [e \in {} |-> SentRecord("default")]
  /\ bulk = BulkIdle
  /\ stats = NoResult
  /\ monitored = NoMessage
  /\ calls = <<>>

\* ------------------------------------------------------------------------
\* Properties of the campaign tracker and the bulk senders
\* ------------------------------------------------------------------------
Range(seq) == {seq[n] : n \in 1..Len(seq)}

\* C9: get_campaign_stats on a status map without entries returns total_sent 0,
\* response_rate 0 and interest_rate 0 and raises no division error.  (The map
\* never loses an entry, so statistics seen next to an empty map were computed
\* from the empty map.)
C9_EmptyMapStatsAreZero ==
  (stats.kind = "stats" /\ DOMAIN prospect_status = {})
    => /\ stats.total_sent = 0
       /\ stats.response_rate = ZeroRate
       /\ stats.interest_rate = ZeroRate

C9_Witness ==
  /\ stats.kind = "stats"
  /\ DOMAIN prospect_status = {}
  /\ stats.total_sent = 0
  /\ stats.response_rate.error = NoError

\* the run's templates only use the placeholders the sender fills in, so that a
\* failure of the personalisation is a failure of one prospect
TemplateFitsSender ==
  /\ bulk.template.body \subseteq {"name", "company", "role"}
  /\ bulk.template.subject \subseteq {"name", "company"}

\* C10: in a bulk send, a failure while preparing or sending the message of one
\* prospect is caught and recorded as failed for that prospect, every later
\* prospect is still attempted and none is attempted twice; for both
\* AdvancedEmailAgent.send_bulk_emails and SimpleEmailSender.send_bulk_emails.
C10_BulkFailureStaysWithItsProspect ==
  (bulk.pc = "done" /\ bulk.connected /\ TemplateFitsSender)
    => /\ bulk.raised = NoError                                      \* caught
       /\ Range(bulk.successful) \cup Range(bulk.failed) = Range(bulk.attempted)
       /\ Range(bulk.successful) \cap Range(bulk.failed) = {}        \* recorded
       /\ bulk.attempted = [n \in 1..Len(bulk.prospects) |-> n]      \* all, once each

\* ------------------------------------------------------------------------
\* AdvancedEmailAgent: replies.  A message of the inbox is its From header
\* and its plain-text body.
\* ------------------------------------------------------------------------
NoMatch == << "<no match>" >>

\* re.search(r'<(.+?)>', sender).group(1): the leftmost "<" that is followed,
\* after at least one character and within the line, by a ">", and the
\* shortest such group; NoMatch when re.search returns None
angle_address(sender) ==
  LET closes(i) == {j \in (i + 2)..Len(sender) :
                      /\ sender[j] = ">"
                      /\ \A k \in (i + 1)..(j - 1) : sender[k] # "\n"}
      opens == {i \in 1..Len(sender) : sender[i] = "<" /\ closes(i) # {}}
  IN IF opens = {} THEN NoMatch
     ELSE LET i == CHOOSE x \in opens : \A y \in opens : x <= y
              j == CHOOSE x \in closes(i) : \A y \in closes(i) : x <= y
          IN SubSeq(sender, i + 1, j - 1)

\* a reply test that takes every message of the inbox for a reply
is_reply_to_outreach_any(ps, sender) == TRUE

\* lines 222-229
is_reply_to_outreach(ps, sender) ==
  LET email_match == angle_address(sender)
      sender_email == IF email_match # NoMatch THEN email_match ELSE sender
  IN sender_email \in DOMAIN ps

\* the expression of lines 298 and 396; re.search(...) is None for a string
\* with "<" and no group, and .group raises AttributeError
sender_email_of(sender) ==
  IF \E i \in 1..Len(sender) : sender[i] = "<" THEN angle_address(sender) ELSE sender

\* an unsubscribe mark that drops the record
mark_as_unsubscribed_delete(ps, recipient) ==
  LET sender_email == sender_email_of(recipient)
  IN IF sender_email = NoMatch THEN [raised |-> "AttributeError", prospect_status |-> ps]
     ELSE [raised |-> NoError,
           prospect_status |-> [e \in DOMAIN ps \ {sender_email} |-> ps[e]]]

\* lines 394-399
mark_as_unsubscribed(ps, recipient) ==
  LET sender_email == sender_email_of(recipient)
  IN IF sender_email = NoMatch THEN [raised |-> "AttributeError", prospect_status |-> ps]
     ELSE [raised |-> NoError,
           prospect_status |->
             IF sender_email \in DOMAIN ps
             THEN [ps EXCEPT ![sender_email].unsubscribed = "True"]
             ELSE ps]

\* lines 288-295: the call handle_response makes for a category; the two
\* send_* methods hand one message to send_single_email(recipient, ...),
\* which catches its own errors and touches no field of the agent, and
\* schedule_follow_up only prints the date
category_call(category, sender) ==
  IF category = "interested" THEN << <<"send_meeting_scheduling_email", sender, 0>> >>
  ELSE IF category = "has_questions" THEN << <<"send_question_response_email", sender, 0>> >>
  ELSE IF category = "bad_timing" THEN << <<"schedule_follow_up", sender, 90>> >>
  ELSE IF category = "not_interested" THEN << <<"mark_as_unsubscribed", sender, 0>> >>
  ELSE <<>>

\* a handler that keeps the first reply it recorded for an address
handle_response_keep_first(ps, sender, response_analysis) ==
  LET category == response_analysis.category
      marked == IF category = "not_interested" THEN mark_as_unsubscribed(ps, sender)
                ELSE [raised |-> NoError, prospect_status |-> ps]
      sender_email == sender_email_of(sender)
  IN IF marked.raised # NoError
     THEN [raised |-> marked.raised, prospect_status |-> marked.prospect_status,
           calls |-> category_call(category, sender)]
     ELSE IF sender_email = NoMatch
     THEN [raised |-> "AttributeError", prospect_status |-> marked.prospect_status,
           calls |-> category_call(category, sender)]
     ELSE [raised |-> NoError,
           prospect_status |->
             IF /\ sender_email \in DOMAIN marked.prospect_status
                /\ marked.prospect_status[sender_email].last_response = NoLastResponse
             THEN [marked.prospect_status EXCEPT
                     ![sender_email].last_response =
                        [category |-> category, body |-> response_analysis.body]]
             ELSE marked.prospect_status,
           calls |-> category_call(category, sender)]

\* a handler that answers every reply that is not a refusal with the
\* meeting-scheduling e-mail
handle_response_always_meeting(ps, sender, response_analysis) ==
  LET category == response_analysis.category
      marked == IF category = "not_interested" THEN mark_as_unsubscribed(ps, sender)
                ELSE [raised |-> NoError, prospect_status |-> ps]
      sender_email == sender_email_of(sender)
      made == IF category = "not_interested" THEN category_call(category, sender)
              ELSE category_call("interested", sender)
  IN IF marked.raised # NoError
     THEN [raised |-> marked.raised, prospect_status |-> marked.prospect_status,
           calls |-> made]
     ELSE IF sender_email = NoMatch
     THEN [raised |-> "AttributeError", prospect_status |-> marked.prospect_status,
           calls |-> made]
     ELSE [raised |-> NoError,
           prospect_status |->
             IF sender_email \in DOMAIN marked.prospect_status
             THEN [marked.prospect_status EXCEPT
                     ![sender_email].last_response =
                        [category |-> category, body |-> response_analysis.body]]
             ELSE marked.prospect_status,
           calls |-> made]

\* lines 283-304: the call of the category, then the update of last_response
handle_response(ps, sender, response_analysis) ==
  LET category == response_analysis.category
      marked == IF category = "not_interested" THEN mark_as_unsubscribed(ps, sender)
                ELSE [raised |-> NoError, prospect_status |-> ps]
      sender_email == sender_email_of(sender)
  IN IF marked.raised # NoError
     THEN [raised |-> marked.raised, prospect_status |-> marked.prospect_status,
           calls |-> category_call(category, sender)]
     ELSE IF sender_email = NoMatch
     THEN [raised |-> "AttributeError", prospect_status |-> marked.prospect_status,
           calls |-> category_call(category, sender)]
     ELSE [raised |-> NoError,
           prospect_status |->
             IF sender_email \in DOMAIN marked.prospect_status
             THEN [marked.prospect_status EXCEPT
                     ![sender_email].last_response =
                        [category |-> category, body |-> response_analysis.body]]
             ELSE marked.prospect_status,
           calls |-> category_call(category, sender)]

SenderForms ==
  { AddrA, <<"A","n","n"," ","<","a","@","x",".","i","o",">">>, <<"A","@","X",".","I","O">>, <<"Z","e","d"," ","<","z","@","q",".","i","o",">">> }

ReplyBodies ==
  { <<"S","o","u","n","d","s"," ","g","o","o","d">>, <<"N","o","t"," ","i","n","t","e","r","e","s","t","e","d">>, <<"w","h","a","t"," ","i","s"," ","i","t","?">>, <<"m","a","y","b","e"," ","l","a","t","e","r">>, <<"t","h","a","n","k","s">> }

\* every body from the prospect that writes with a display name, one body
\* from every other sender
Messages ==
  { msg \in [sender : SenderForms, body : ReplyBodies] :
      \/ msg.sender = <<"A","n","n"," ","<","a","@","x",".","i","o",">">>
      \/ msg.body = <<"S","o","u","n","d","s"," ","g","o","o","d">> }

\* lines 206-207: extract_email_body and analyze_response, for every body of
\* ReplyBodies
response_analysis == [body \in ReplyBodies |-> analyze_response(body)]

\* lines 197-215: the body of the loop for one message of the inbox; an
\* exception of handle_response ends the loop in the except arm of line 219
monitor_inbox_for_replies(ps, msg) ==
  IF is_reply_to_outreach(ps, msg.sender)
  THEN LET handled == handle_response(ps, msg.sender, response_analysis[msg.body])
       IN [prospect_status |-> handled.prospect_status, calls |-> handled.calls]
  ELSE [prospect_status |-> ps, calls |-> <<>>]

\* lines 183-220, between two bulk runs, for an inbox that holds one message;
\* the loop keeps nothing from one message to the next, so a longer inbox
\* is a run of such steps, and an IMAP error or an empty inbox is no step
MonitorInboxForReplies ==
  /\ bulk.pc # "loop"
  /\ \E msg \in Messages :
       /\ prospect_status' = monitor_inbox_for_replies(prospect_status, msg).prospect_status
       /\ calls' = monitor_inbox_for_replies(prospect_status, msg).calls
       /\ monitored' = msg
  /\ UNCHANGED <<bulk, stats, routerVars, classifierVars, outreachVars, agentVars, voiceVars>>

\* mark_as_unsubscribed called on its own; an exception leaves the map as it is
MarkAsUnsubscribed ==
  /\ bulk.pc # "loop"
  /\ \E recipient \in SenderForms :
       prospect_status' = mark_as_unsubscribed(prospect_status, recipient).prospect_status
  /\ monitored' = NoMessage
  /\ calls' = <<>>
  /\ UNCHANGED <<bulk, stats, routerVars, classifierVars, outreachVars, agentVars, voiceVars>>

\* analyze_response called on the agent between two bulk runs, with the body
\* of some reply: line 241 takes email_body and reads no field of self
AnalyzeReplyBody ==
  /\ bulk.pc # "loop"
  /\ \E body \in ReplyBodies :
       /\ email_body' = body
       /\ analysis' = response_analysis[body]
  /\ UNCHANGED <<campaignVars, routerVars, outreachVars, agentVars, voiceVars>>

\* the prospect lists of a small campaign: one prospect, and that prospect
\* after another one
CampaignLists ==
  LET ann == CHOOSE q \in ProspectPool : q.email = AddrA
      bob == CHOOSE q \in ProspectPool : q.email = AddrB
  IN { <<ann>>, <<bob, ann>> }

\* send_bulk_emails called with a list of the small campaign and the default
\* delay
CampaignSendBulkConnect == send_bulk_emails_connect(CampaignLists, {30})

\* no body has been analysed yet
HistoryInit ==
  /\ email_body = <<>>
  /\ analysis = NoResult

\* ------------------------------------------------------------------------
\* Properties of the campaign-status map under sends, replies and
\* unsubscribe marks
\* ------------------------------------------------------------------------
\* the last_response a handled reply with this body leaves
ResponseOf(body) ==
  [category |-> response_analysis[body].category, body |-> body]

\* C15: a prospect's record is created by a successful send to its address
\* and never deleted: over any step of a bulk send, of reply handling or of
\* an unsubscribe mark, every address that has a record keeps one, and an
\* address gets a record only in the loop iteration that sent to it.
C15_RecordsNeverDeleted ==
  [][/\ DOMAIN prospect_status \subseteq DOMAIN prospect_status'
     /\ \A e \in DOMAIN prospect_status' \ DOMAIN prospect_status :
          /\ bulk.pc = "loop" /\ bulk.prospects[bulk.i].email = e
          /\ bulk'.successful = Append(bulk.successful, bulk.i)
          /\ prospect_status'[e].status = "sent"]_vars

C15_Witness ==
  /\ AddrA \in DOMAIN prospect_status
  /\ prospect_status[AddrA].unsubscribed = "True"
  /\ prospect_status[AddrA].last_response = ResponseOf(<<"N","o","t"," ","i","n","t","e","r","e","s","t","e","d">>)
  /\ bulk.pc = "done" /\ bulk.successful = <<>> /\ Len(bulk.failed) > 0

\* C16: a handled reply from a tracked prospect overwrites last_response:
\* after the reply, last_response holds the category and the body of that
\* reply, whatever earlier reply was recorded.
C16_LastResponseIsMostRecent ==
  (monitored # NoMessage /\ sender_email_of(monitored.sender) \in DOMAIN prospect_status)
    => prospect_status[sender_email_of(monitored.sender)].last_response
         = ResponseOf(monitored.body)

C16_Witness ==
  /\ monitored = [sender |-> <<"A","n","n"," ","<","a","@","x",".","i","o",">">>, body |-> <<"w","h","a","t"," ","i","s"," ","i","t","?">>]
  /\ AddrA \in DOMAIN prospect_status
  /\ prospect_status[AddrA].unsubscribed = "True"
  /\ prospect_status[AddrA].last_response.category = "has_questions"

\* C17: every record's status is one of sent, replied and unsubscribed; it
\* is sent once a send created the record, and a handled reply makes it
\* replied, or unsubscribed when the reply is classified not_interested.
C17_StatusFollowsReplies ==
  \A e \in DOMAIN prospect_status :
    /\ prospect_status[e].status \in {"sent", "replied", "unsubscribed"}
    /\ prospect_status[e].last_response = NoLastResponse
         => prospect_status[e].status = "sent"
    /\ prospect_status[e].last_response # NoLastResponse
         => prospect_status[e].status =
              IF prospect_status[e].last_response.category = "not_interested"
              THEN "unsubscribed" ELSE "replied"

\* the address a From header denotes: the text between the angle brackets
\* if it has them, in lower case
NormalizedAddress(sender) ==
  lower(IF angle_address(sender) # NoMatch THEN angle_address(sender) ELSE sender)

\* C18: the map is keyed by the normalized address: a reply whose sender
\* denotes, in another form (display name and angle brackets, or another
\* letter case), an address that was sent to is recognised and updates
\* that address's record.
C18_RepliesMatchNormalizedAddress ==
  (monitored # NoMessage /\ NormalizedAddress(monitored.sender) \in DOMAIN prospect_status)
    => prospect_status[NormalizedAddress(monitored.sender)].last_response
         = ResponseOf(monitored.body)

\* the indices of the events of the bulk run that hand a message to the
\* transport
SendAttempts == {k \in DOMAIN bulk.events : bulk.events[k][1] = "sendmail"}

\* C20 as stated: between every two consecutive send attempts of a batch
\* of the advanced agent lies a pause of the configured delay.
C20_PauseBetweenAttempts ==
  bulk.agent = "advanced" =>
    \A i, j \in SendAttempts :
      i < j => \E k \in (i + 1)..(j - 1) : bulk.events[k] = <<"sleep", bulk.delay_seconds>>

\* C20 amended: every send the transport accepted is followed at once by a
\* pause of the configured delay, so the delay lies between a successful
\* send and the next attempt; an attempt the transport refused is followed
\* by no pause, the next message is handed over at once.
C20_PauseAfterEverySuccess ==
  bulk.agent = "advanced" =>
    \A k \in DOMAIN bulk.events :
      /\ (bulk.events[k][1] = "sendmail" /\ bulk.events[k][3] = "ok")
           => /\ k < Len(bulk.events)
              /\ bulk.events[k + 1] = <<"sleep", bulk.delay_seconds>>
      /\ (bulk.events[k][1] = "sendmail" /\ bulk.events[k][3] = "error")
           => (k < Len(bulk.events) => bulk.events[k + 1][1] = "sendmail")
      /\ bulk.events[k][1] = "sleep"
           => /\ k > 1
              /\ bulk.events[k - 1][1] = "sendmail" /\ bulk.events[k - 1][3] = "ok"

C20_Witness ==
  /\ bulk.agent = "advanced" /\ bulk.delay_seconds = 60
  /\ Len(bulk.events) = 4
  /\ bulk.events[1] = <<"sendmail", AddrA, "ok">>
  /\ bulk.events[2] = <<"sleep", 60>>
  /\ bulk.events[3] = <<"sendmail", AddrB, "ok">>

NewEvents ==
  IF Len(bulk'.events) > Len(bulk.events)
  THEN {bulk'.events[k] : k \in (Len(bulk.events) + 1)..Len(bulk'.events)}
  ELSE {}

\* the address a From header carries: the text between the angle brackets
\* if it has them, the header itself otherwise
SenderAddress(sender) ==
  IF angle_address(sender) # NoMatch THEN angle_address(sender) ELSE sender

\* the calls of cs that hand an e-mail for the address e to send_single_email
EmailsTo(cs, e) ==
  {k \in DOMAIN cs :
     /\ cs[k][1] \in {"send_meeting_scheduling_email", "send_question_response_email"}
     /\ SenderAddress(cs[k][2]) = e}

Unsubscribed(e) ==
  e \in DOMAIN prospect_status /\ prospect_status[e].unsubscribed = "True"

\* a step of inbox monitoring that read a message: the message is in
\* monitored, and neither a bulk run nor the statistics nor the classifier
\* moved
MonitorStep ==
  /\ monitored' # NoMessage
  /\ UNCHANGED <<bulk, stats, email_body, analysis>>

\* C26: once a prospect has been marked unsubscribed, no later operation on
\* the agent sends an e-mail to that address: neither the handling of a
\* later reply from it nor an iteration of a later bulk send.
C26_NoMailAfterUnsubscribe ==
  [][\A e \in DOMAIN prospect_status :
       Unsubscribed(e) =>
         /\ <<"sendmail", e, "ok">> \notin NewEvents
         /\ MonitorStep => EmailsTo(calls', e) = {}]_vars

\* C27: handle_response takes exactly the action of the reply's category:
\* interested sends one meeting-scheduling e-mail to the sender,
\* has_questions one question-response e-mail, bad_timing schedules a
\* follow-up 90 days ahead and sends nothing, not_interested marks the
\* prospect unsubscribed and sends nothing, neutral sends and marks nothing;
\* in every case the tracked sender's last_response is then that category.
C27_ActionOfTheCategory ==
  [][(MonitorStep /\ SenderAddress(monitored'.sender) \in DOMAIN prospect_status)
       => LET sender == monitored'.sender
              e == SenderAddress(sender)
              category == response_analysis[monitored'.body].category
          IN /\ category = "interested"
                  => calls' = << <<"send_meeting_scheduling_email", sender, 0>> >>
             /\ category = "has_questions"
                  => calls' = << <<"send_question_response_email", sender, 0>> >>
             /\ category = "bad_timing"
                  => calls' = << <<"schedule_follow_up", sender, 90>> >>
             /\ category = "not_interested"
                  => /\ calls' = << <<"mark_as_unsubscribed", sender, 0>> >>
                     /\ prospect_status'[e].unsubscribed = "True"
             /\ category = "neutral" => calls' = <<>>
             /\ category # "not_interested"
                  => prospect_status'[e].unsubscribed = prospect_status[e].unsubscribed
             /\ prospect_status'[e].last_response.category = category
             /\ \A o \in DOMAIN prospect_status \ {e} :
                  prospect_status'[o] = prospect_status[o]]_vars

C27_Witness ==
  /\ monitored = [sender |-> <<"A","n","n"," ","<","a","@","x",".","i","o",">">>, body |-> <<"m","a","y","b","e"," ","l","a","t","e","r">>]
  /\ calls = << <<"schedule_follow_up", <<"A","n","n"," ","<","a","@","x",".","i","o",">">>, 90>> >>
  /\ AddrA \in DOMAIN prospect_status
  /\ prospect_status[AddrA].last_response.category = "bad_timing"
  /\ prospect_status[AddrA].unsubscribed = Absent

\* C28: a message whose sender address has no record in the map is not
\* treated as a reply: monitoring does not handle it, no e-mail is sent
\* because of it, and the map and the result of get_campaign_stats are the
\* same before and after it.
C28_UntrackedSenderIsIgnored ==
  [][(MonitorStep /\ SenderAddress(monitored'.sender) \notin DOMAIN prospect_status)
       => /\ calls' = <<>>
          /\ prospect_status' = prospect_status
          /\ get_campaign_stats(prospect_status') = get_campaign_stats(prospect_status)]_vars

C28_Witness ==
  /\ monitored.sender = <<"Z","e","d"," ","<","z","@","q",".","i","o",">">>
  /\ monitored.body = <<"S","o","u","n","d","s"," ","g","o","o","d">>
  /\ calls = <<>>
  /\ DOMAIN prospect_status = {AddrA, AddrB}
  /\ \A e \in DOMAIN prospect_status : prospect_status[e].last_response = NoLastResponse

\* the addresses this step handed to the transport without an error
NewlySent == {ev[2] : ev \in {x \in NewEvents : x[1] = "sendmail" /\ x[3] = "ok"}}

\* C29: an address has a record exactly when some send to it was handed to
\* the transport without an error: a step adds to the map the addresses it
\* sent to successfully and no other, so a prospect whose send failed gets
\* no record from it; when a bulk run that logged in has ended, its
\* successful and failed sends add up to the prospects of its list; and
\* total_sent of get_campaign_stats is the number of distinct addresses
\* sent to successfully so far.
C29_RecordsAreSuccessfulSends ==
  [][/\ DOMAIN prospect_status' = DOMAIN prospect_status \cup NewlySent
     /\ get_campaign_stats(prospect_status').total_sent
          = Cardinality(DOMAIN prospect_status \cup NewlySent)
     /\ (bulk'.agent = "advanced" /\ bulk'.connected /\ bulk'.pc = "done")
          => Len(bulk'.successful) + Len(bulk'.failed) = Len(bulk'.prospects)]_vars

\* a rate lies between 0 and 100
IsPercentage(rate) ==
  /\ rate.error = NoError /\ rate.den > 0
  /\ 0 <= rate.num /\ rate.num <= 100 * rate.den

\* C30: after any sequence of bulk sends and handled replies on one agent,
\* get_campaign_stats returns 0 <= interested_replies <= total_replies <=
\* total_sent, response_rate and interest_rate between 0 and 100 with
\* interest_rate <= response_rate; and a handled reply from a tracked
\* prospect never decreases total_replies.
C30_StatsAreOrderedAndRepliesGrow ==
  [][/\ stats'.kind = "stats" =>
          /\ 0 <= stats'.interested_replies
          /\ stats'.interested_replies <= stats'.total_replies
          /\ stats'.total_replies <= stats'.total_sent
          /\ IsPercentage(stats'.response_rate)
          /\ IsPercentage(stats'.interest_rate)
          /\ stats'.interest_rate.num * stats'.response_rate.den
               <= stats'.response_rate.num * stats'.interest_rate.den
     /\ (MonitorStep /\ SenderAddress(monitored'.sender) \in DOMAIN prospect_status)
          => get_campaign_stats(prospect_status').total_replies
               >= get_campaign_stats(prospect_status).total_replies]_vars

\* statistics taken after two sends and an interested reply to one of them
C30_Witness ==
  /\ stats.kind = "stats"
  /\ stats = get_campaign_stats(prospect_status)
  /\ stats.total_sent = 2 /\ stats.total_replies = 1 /\ stats.interested_replies = 1
  /\ stats.response_rate = [num |-> 100, den |-> 2, error |-> NoError]
  /\ stats.interest_rate = [num |-> 100, den |-> 2, error |-> NoError]
  /\ monitored # NoMessage
  /\ prospect_status[AddrA].last_response.category = "interested"

\* ------------------------------------------------------------------------
\* LocalEmailAgent.generate_email.  prospect_info is a dict: Missing marks a
\* key it does not have, None a key whose value is None.
\* ------------------------------------------------------------------------
Whitespace == {" ", "\t", "\n"}

\* name.split()[0]: the first whitespace-delimited token; <<>> when split()
\* returns an empty list, where [0] raises IndexError
first_token(s) ==
  LET starts == {i \in 1..Len(s) : s[i] \notin Whitespace}
  IN IF starts = {} THEN <<>>
     ELSE LET a == CHOOSE i \in starts : \A j \in starts : i <= j
              ends == {j \in a..Len(s) : \A k \in a..j : s[k] \notin Whitespace}
              b == CHOOSE j \in ends : \A k \in ends : k <= j
          IN SubSeq(s, a, b)

\* dict.get(key, default)
get(value, default) == IF value = Missing THEN default ELSE value

\* what an f-string or str.format renders a value as
str(value) == IF value = None THEN <<"N","o","n","e">> ELSE value

there == <<"t","h","e","r","e">>
your_company == <<"y","o","u","r"," ","c","o","m","p","a","n","y">>
your_role == <<"y","o","u","r"," ","r","o","l","e">>
general_outreach == <<"g","e","n","e","r","a","l"," ","o","u","t","r","e","a","c","h">>

\* the keys of the triggers dict, in insertion order
trigger_keys ==
  << <<"d","o","w","n","l","o","a","d","e","d">>, <<"v","i","s","i","t","e","d">>, <<"w","e","b","i","n","a","r">>, <<"p","r","o","d","u","c","t">>, <<"c","o","m","p","a","n","y">>, <<"g","e","n","e","r","a","l">> >>

\* the keys of the value_props dict, in insertion order
value_prop_keys ==
  << <<"c","e","o">>, <<"v","p">>, <<"m","a","n","a","g","e","r">>, <<"d","i","r","e","c","t","o","r">>, <<"d","e","f","a","u","l","t">> >>

\* next((k for k in table if k in s), default)
first_key_in(table, s, default) ==
  LET hits == {n \in 1..Len(table) : In(table[n], s)}
  IN IF hits = {} THEN default
     ELSE table[CHOOSE n \in hits : \A m \in hits : n <= m]

\* lines 482-485
select_trigger_key(context) ==
  IF In(<<"p","r","o","d","u","c","t">>, lower(context)) \/ In(<<"c","o","m","p","a","n","y">>, lower(context))
  THEN <<"c","o","m","p","a","n","y">>
  ELSE first_key_in(trigger_keys, lower(context), <<"g","e","n","e","r","a","l">>)

\* line 497
value_prop_key(role) == first_key_in(value_prop_keys, lower(role), <<"d","e","f","a","u","l","t">>)

\* lines 472-479: the text of triggers[trigger_key]
personalization(trigger_key, company, context) ==
  IF trigger_key = <<"d","o","w","n","l","o","a","d","e","d">> THEN <<"s","a","w"," ","y","o","u"," ","d","o","w","n","l","o","a","d","e","d"," ","o","u","r"," ">> \o str(context)
  ELSE IF trigger_key = <<"v","i","s","i","t","e","d">>
  THEN Concat(<< <<"n","o","t","i","c","e","d"," ","y","o","u"," ","v","i","s","i","t","e","d"," ","o","u","r"," ">>, str(context), <<" ","p","a","g","e">> >>)
  ELSE IF trigger_key = <<"w","e","b","i","n","a","r">> THEN <<"s","a","w"," ","y","o","u"," ","a","t","t","e","n","d","e","d"," ","o","u","r"," ">> \o str(context)
  ELSE IF trigger_key = <<"p","r","o","d","u","c","t">>
  THEN <<"t","h","o","u","g","h","t"," ","y","o","u"," ","m","i","g","h","t"," ","b","e"," ","i","n","t","e","r","e","s","t","e","d"," ","i","n"," ","o","u","r"," ","p","r","o","d","u","c","t"," ","s","o","l","u","t","i","o","n","s">>
  ELSE Concat(<< <<"c","a","m","e"," ","a","c","r","o","s","s"," ">>, str(company),
                 <<" ","a","n","d"," ","w","a","s"," ","i","m","p","r","e","s","s","e","d"," ","b","y"," ","y","o","u","r"," ","g","r","o","w","t","h"," ","i","n"," ","t","h","e"," ","i","n","d","u","s","t","r","y">> >>)

\* lines 500-506: the subject line `pick` of cold_subject_lines, formatted
format_subject(pick, company, name, context) ==
  IF pick = 1 THEN <<"Q","u","i","c","k"," ","q","u","e","s","t","i","o","n"," ","a","b","o","u","t"," ">> \o str(company)
  ELSE IF pick = 2 THEN Concat(<< name, <<","," ","n","o","t","i","c","e","d"," ">>, str(context) >>)
  ELSE IF pick = 3 THEN <<"5","-","m","i","n"," ","c","h","a","t"," ","a","b","o","u","t"," ","o","p","e","r","a","t","i","o","n","a","l"," ","e","f","f","i","c","i","e","n","c","y","?">>
  ELSE Concat(<< str(company), <<" ","+"," ","a","u","t","o","m","a","t","i","o","n"," ","="," ","?">> >>)

\* generate_email left by an exception; role_key is what line 497 had selected
GenerationRaised(error, role_key) ==
  [error |-> error, role_key |-> role_key, subject |-> AbsentText,
   greeting |-> AbsentText, company_mention |-> AbsentText,
   company |-> AbsentText, value_prop |-> AbsentText]

\* lines 460-565.  The returned email_body is the fixed text of lines 518-532
\* around four slots: the greeting, the company mention, the company (twice)
\* and the value proposition; the slots are what the result keeps.
generate_email(prospect_info, pick) ==
  LET name == get(prospect_info.prospect_name, there)
      company == get(prospect_info.prospect_company, your_company)
      role == get(prospect_info.prospect_role, your_role)
      context == get(prospect_info.context, general_outreach)
  IN IF context = None \/ role = None
     THEN GenerationRaised("AttributeError", AbsentText)
     ELSE
     LET trigger_key == select_trigger_key(context)
         role_key == value_prop_key(role)
     IN IF name = None THEN GenerationRaised("AttributeError", role_key)
        ELSE IF name # there /\ first_token(name) = <<>>
        THEN GenerationRaised("IndexError", role_key)
        ELSE IF generate_email_error(pick) # NoError
        THEN GenerationRaised(generate_email_error(pick), role_key)
        ELSE
        LET first_name == IF name # there THEN first_token(name) ELSE there
            personal == name # there /\ company # your_company
        IN [error |-> NoError,
            role_key |-> role_key,
            subject |-> format_subject(pick, company, first_name, context),
            greeting |-> IF personal
                         THEN Concat(<< <<"H","i"," ">>, first_token(name), <<",">> >>)
                         ELSE <<"H","i"," ","t","h","e","r","e",",">>,
            company_mention |->
              IF personal
              THEN Concat(<< <<"I"," ">>, personalization(trigger_key, company, context), <<".">> >>)
              ELSE <<"I"," ","h","o","p","e"," ","t","h","i","s"," ","e","m","a","i","l"," ","f","i","n","d","s"," ","y","o","u"," ","w","e","l","l",".">>,
            company |-> str(company),
            value_prop |-> role_key]

\* ------------------------------------------------------------------------
\* The calls and requests an outreach e-mail is generated for.  A prospect
\* is a dict with the keys name, company, role and context.
\* ------------------------------------------------------------------------
NameValues == {<<"A","n","n"," ","L","e","e">>, <<>>, Missing}
CompanyValues == {<<"A","c","m","e">>, Missing}
RoleValues == {<<"C","E","O">>, <<"V","P"," ","a","n","d"," ","C","E","O">>, <<"S","a","l","e","s"," ","M","a","n","a","g","e","r">>, <<"B","u","y","e","r">>, Missing}
ContextValues == {<<"w","e","b","i","n","a","r">>, Missing, None}

ProspectDicts ==
  [name : NameValues, company : CompanyValues, role : RoleValues, context : ContextValues]

\* EmailGenerationRequest: three required strings and an optional context,
\* None when the request omits it
EmailGenerationRequests ==
  {d \in ProspectDicts : d.name # Missing /\ d.company # Missing /\ d.role # Missing
                         /\ d.context # Missing}

\* BulkEmailRequest.prospects is a List[Dict[str, str]]: a key may be
\* missing, a value is a string
PreviewPool ==
  { [name |-> <<"A","n","n"," ","L","e","e">>, company |-> <<"A","c","m","e">>, role |-> <<"C","E","O">>, context |-> <<"w","e","b","i","n","a","r">>],
    [name |-> Missing, company |-> <<"A","c","m","e">>, role |-> <<"S","a","l","e","s"," ","M","a","n","a","g","e","r">>, context |-> Missing],
    [name |-> Missing, company |-> Missing, role |-> Missing, context |-> Missing] }

MaxPreviewProspects == 4

PreviewLists == UNION { [1..n -> PreviewPool] : n \in 0..MaxPreviewProspects }

\* BulkEmailRequest.campaign_type, left at its default
campaign_type == <<"o","u","t","r","e","a","c","h">>

\* request.prospects[:3]
PreviewLimit == 3

Requests ==
  { [op |-> "generate_email", prospects |-> <<d>>] : d \in ProspectDicts }
  \cup { [op |-> "generate_personalized_email", prospects |-> <<d>>] : d \in ProspectDicts }
  \cup { [op |-> "POST /generate-email", prospects |-> <<d>>] : d \in EmailGenerationRequests }
  \cup { [op |-> "POST /bulk-email/preview", prospects |-> ps] : ps \in PreviewLists }

NoRequest == [op |-> "none", prospects |-> <<>>]

\* a direct call: what it returned, or the exception it raised
CallResult(prospect, email) ==
  [kind |-> IF email.error = NoError THEN "return" ELSE "raise",
   status_code |-> 0, detail |-> email.error,
   emails |-> << [prospect |-> prospect, email |-> email] >>, total_prospects |-> 1]

\* raise HTTPException(status_code, detail)
HTTPException(status_code, detail) ==
  [kind |-> "http", status_code |-> status_code, detail |-> detail,
   emails |-> <<>>, total_prospects |-> 0]

\* a returned dict, answered with status 200
HttpOk(emails, total_prospects) ==
  [kind |-> "http", status_code |-> 200, detail |-> NoError,
   emails |-> emails, total_prospects |-> total_prospects]

\* LocalEmailAgent.generate_email called with the dict as prospect_info
GenerateEmail ==
  /\ request.op = "generate_email" /\ response.kind = "none"
  /\ \E pick \in 1..Len(cold_subject_lines) :
       LET d == request.prospects[1]
           prospect_info == [prospect_name |-> d.name, prospect_company |-> d.company,
                             prospect_role |-> d.role, context |-> d.context]
       IN response' = CallResult(d, generate_email(prospect_info, pick))
  /\ UNCHANGED <<request, ADVANCED_EMAIL_AVAILABLE, routerVars, classifierVars, campaignVars, agentVars, voiceVars>>

\* AdvancedEmailAgent.generate_personalized_email called with the dict as
\* prospect; the dict has an 'email' key besides
GeneratePersonalizedEmail ==
  /\ request.op = "generate_personalized_email" /\ response.kind = "none"
  /\ LET d == request.prospects[1]
         prospect == [email |-> AddrA, name |-> d.name, company |-> d.company,
                      role |-> d.role]
     IN response' = CallResult(d, generate_personalized_email(prospect))
  /\ UNCHANGED <<request, ADVANCED_EMAIL_AVAILABLE, routerVars, classifierVars, campaignVars, agentVars, voiceVars>>

\* api/agents.py 158-178: every exception of the try block is answered
\* with status 500
generate_outbound_email(d, pick) ==
  LET prospect_info == [prospect_name |-> d.name, prospect_company |-> d.company,
                        prospect_role |-> d.role, context |-> d.context]
      result == generate_email(prospect_info, pick)
  IN IF result.error # NoError THEN HTTPException(500, result.error)
     ELSE HttpOk(<< [prospect |-> d, email |-> result] >>, 1)

GenerateOutboundEmail ==
  /\ request.op = "POST /generate-email" /\ response.kind = "none"
  /\ \E pick \in 1..Len(cold_subject_lines) :
       response' = generate_outbound_email(request.prospects[1], pick)
  /\ UNCHANGED <<request, ADVANCED_EMAIL_AVAILABLE, routerVars, classifierVars, campaignVars, agentVars, voiceVars>>

\* api/agents.py 199-238.  The HTTPException of line 204 is raised inside
\* the try block and is an Exception, so the except arm of line 237 answers
\* it with status 500.
preview_bulk_email_campaign(prospects, picks) ==
  IF prospects = <<>>
  THEN HTTPException(500, "400: No prospects provided")
  ELSE
  LET shown == SubSeq(prospects, 1, IF Len(prospects) < PreviewLimit
                                     THEN Len(prospects) ELSE PreviewLimit)
      email_result(i) ==
        generate_email([prospect_name |-> get(shown[i].name, <<"P","r","o","s","p","e","c","t">>),
                        prospect_company |-> get(shown[i].company, <<"C","o","m","p","a","n","y">>),
                        prospect_role |-> get(shown[i].role, <<"D","e","c","i","s","i","o","n"," ","M","a","k","e","r">>),
                        context |-> get(shown[i].context, campaign_type)],
                       picks[i])
      raised == {i \in 1..Len(shown) : email_result(i).error # NoError}
  IN IF raised # {}
     THEN HTTPException(500,
            email_result(CHOOSE i \in raised : \A j \in raised : i <= j).error)
     ELSE HttpOk([i \in 1..Len(shown) |-> [prospect |-> shown[i], email |-> email_result(i)]],
                 Len(prospects))

PreviewBulkEmailCampaign ==
  /\ request.op = "POST /bulk-email/preview" /\ response.kind = "none"
  /\ \E picks \in [1..PreviewLimit -> 1..Len(cold_subject_lines)] :
       response' = preview_bulk_email_campaign(request.prospects, picks)
  /\ UNCHANGED <<request, ADVANCED_EMAIL_AVAILABLE, routerVars, classifierVars, campaignVars, agentVars, voiceVars>>

OutreachInit ==
  /\ request \in Requests
  /\ response = NoResult
  /\ ADVANCED_EMAIL_AVAILABLE = FALSE

OutreachOff ==
  /\ request = NoRequest
  /\ response = NoResult
  /\ ADVANCED_EMAIL_AVAILABLE = FALSE

\* ------------------------------------------------------------------------
\* Properties of e-mail generation and of its two endpoints
\* ------------------------------------------------------------------------
\* the prospect the answered call or request was made for
RequestedProspect == request.prospects[1]

\* the (prospect, generated e-mail) pairs the response carries
Items == IF response.kind = "none" THEN {} ELSE Range(response.emails)

\* C11: a POST to /bulk-email/preview whose prospects list is empty is
\* answered with status 400 or with an empty preview, never with status 500.
C11_EmptyPreviewIsClientError ==
  (request.op = "POST /bulk-email/preview" /\ request.prospects = <<>>
     /\ response.kind = "http")
    => \/ response.status_code = 400
       \/ response.status_code = 200 /\ response.emails = <<>>

\* the claim's prospect records: every field is either missing or a usable
\* string, and at least one is missing
FieldsPresentOrMissing(d) ==
  /\ None \notin {d.name, d.company, d.role, d.context}
  /\ d.name # <<>>

SomeFieldMissing(d) == Missing \in {d.name, d.company, d.role, d.context}

\* C12: rendering an outreach e-mail for a prospect record in which any
\* subset of name, company, role and context is missing does not fail and
\* returns a non-empty subject and body with "there" in place of a missing
\* name and "your company" in place of a missing company.
C12_MissingFieldsFallBack ==
  (/\ request.op \in {"generate_email", "generate_personalized_email"}
   /\ response.kind # "none"
   /\ FieldsPresentOrMissing(RequestedProspect)
   /\ SomeFieldMissing(RequestedProspect))
    => /\ response.kind = "return"
       /\ request.op = "generate_email" =>
            LET email == response.emails[1].email
            IN /\ email.subject # <<>>
               /\ email.greeting # <<>> /\ email.company_mention # <<>>
               /\ RequestedProspect.name = Missing => email.greeting = <<"H","i"," ","t","h","e","r","e",",">>
               /\ RequestedProspect.company = Missing => email.company = your_company

\* C13: a POST to /generate-email that omits the optional context returns
\* success with a generated e-mail and the prospect echoed back; the omitted
\* context never causes an error.
C13_OmittedContextSucceeds ==
  (request.op = "POST /generate-email" /\ RequestedProspect.context = None
     /\ response.kind = "http")
    => /\ response.status_code = 200
       /\ Len(response.emails) = 1
       /\ response.emails[1].prospect = RequestedProspect
       /\ response.emails[1].email.error = NoError

\* the role string the selection of the request's generator reads for dict d
RoleSeen(d) ==
  IF request.op = "POST /bulk-email/preview" THEN get(d.role, <<"D","e","c","i","s","i","o","n"," ","M","a","k","e","r">>)
  ELSE IF request.op = "generate_personalized_email" THEN d.role
  ELSE get(d.role, your_role)

\* the text of a template key
KeyText(k) ==
  IF k = "ceo" THEN <<"c","e","o">> ELSE IF k = "vp" THEN <<"v","p">>
  ELSE IF k = "default" THEN <<"d","e","f","a","u","l","t">> ELSE AbsentText

\* the key the generator selected for an item, AbsentText if it raised before
Selected(item) ==
  IF request.op = "generate_personalized_email" THEN KeyText(item.email.subject)
  ELSE item.email.role_key

\* k is the first key of table that occurs in the lower-cased role, or
\* "default" when none occurs
IsFirstKey(table, role, k) ==
  \/ \E n \in 1..Len(table) :
       /\ table[n] = k /\ In(k, lower(role))
       /\ \A m \in 1..(n - 1) : ~In(table[m], lower(role))
  \/ k = <<"d","e","f","a","u","l","t">> /\ \A n \in 1..Len(table) : ~In(table[n], lower(role))

ClaimedKeyOrder == << <<"c","e","o">>, <<"v","p">>, <<"d","e","f","a","u","l","t">> >>

\* the table of keys the request's generator selects from
OwnKeyOrder ==
  IF request.op = "generate_personalized_email" THEN role_template_keys
  ELSE value_prop_keys

\* C14 as stated: every generator selects by role the first of ceo, vp,
\* default that occurs in the lower-cased role, and default when neither ceo
\* nor vp occurs.
C14_FirstOfCeoVpDefault ==
  \A item \in Items :
    item.email.error = NoError
      => IsFirstKey(ClaimedKeyOrder, RoleSeen(item.prospect), Selected(item))

\* C14 amended: every generator selects by role the first key of its own
\* table, in the table's order, that occurs in the lower-cased role, and
\* default when no key of that table occurs; the table is ceo, vp, default
\* in AdvancedEmailAgent and ceo, vp, manager, director, default in
\* LocalEmailAgent, so a role with both "ceo" and "vp" gets ceo in both.
C14_FirstKeyOfOwnTable ==
  \A item \in Items :
    Selected(item) # AbsentText
      => /\ IsFirstKey(OwnKeyOrder, RoleSeen(item.prospect), Selected(item))
         /\ (In(<<"c","e","o">>, lower(RoleSeen(item.prospect)))
               /\ In(<<"v","p">>, lower(RoleSeen(item.prospect))))
              => Selected(item) = <<"c","e","o">>

C14_Witness ==
  /\ request.op = "generate_personalized_email" /\ response.kind = "return"
  /\ RequestedProspect.role = <<"V","P"," ","a","n","d"," ","C","E","O">>
  /\ response.emails[1].email.subject = "ceo"

\* ------------------------------------------------------------------------
\* The campaign endpoints of api/agents.py.  Each handler constructs its own
\* AdvancedEmailAgent; prospect_status is the map of the agent of the
\* request in progress or, between requests, of the request handled last.
\* Handlers run one after the other: send_bulk_emails and time.sleep block
\* the event loop.
\* ------------------------------------------------------------------------
\* what load_prospect_list can return: every dict has every key
CsvProspects == {p \in ProspectPool : p.email # Missing}

CsvProspectLists == UNION { [1..n -> CsvProspects] : n \in 0..MaxProspects }

\* AdvancedEmailAgent.__init__, lines 23-26
EmptyStatus == [e \in {} |-> SentRecord("default")]

\* a dict returned by a campaign handler, answered with status 200
CampaignResult(success, message, campaign_stats) ==
  [kind |-> "http", status_code |-> 200, success |-> success, message |-> message,
   campaign_stats |-> campaign_stats]

NoRequestPending == request.op # "POST /bulk-email/send" \/ response.kind # "none"

\* api/agents.py 241-266: the handler up to the SMTP login of send_bulk_emails
SendBulkEmailCampaign ==
  /\ bulk.pc # "loop" /\ NoRequestPending
  /\ \E csv \in CsvProspectLists, email_config \in BOOLEAN, connects \in BOOLEAN,
        send_delay \in DelayChoices :
       /\ request' = [op |-> "POST /bulk-email/send", prospects |-> csv]
       /\ IF ~ADVANCED_EMAIL_AVAILABLE
          THEN /\ response' = CampaignResult(FALSE, "Advanced email agent not available",
                                             NoResult)
               /\ UNCHANGED <<prospect_status, bulk, monitored, calls>>
          ELSE IF ~email_config
          THEN /\ response' = HTTPException(500, "400: Email configuration required")
               /\ UNCHANGED <<prospect_status, bulk, monitored, calls>>
          ELSE IF csv = <<>>
          THEN /\ response' = HTTPException(500, "400: No prospects found")
               /\ prospect_status' = EmptyStatus
               /\ monitored' = NoMessage
               /\ calls' = <<>>
               /\ UNCHANGED bulk
          ELSE /\ response' = NoResult
               /\ prospect_status' = EmptyStatus
               /\ monitored' = NoMessage
               /\ calls' = <<>>
               /\ bulk' = [BulkIdle EXCEPT
                             !.agent = "advanced", !.prospects = csv,
                             !.delay_seconds = send_delay,
                             !.pc = IF connects THEN "loop" ELSE "done",
                             !.connected = connects,
                             !.aborted_by = IF connects THEN NoError ELSE "SMTPException"]
  /\ UNCHANGED <<stats, ADVANCED_EMAIL_AVAILABLE, routerVars, classifierVars, agentVars, voiceVars>>

\* api/agents.py 266-278: send_bulk_emails has returned and the handler
\* answers
SendBulkEmailCampaignReturn ==
  /\ request.op = "POST /bulk-email/send" /\ response.kind = "none"
  /\ bulk.pc = "done"
  /\ response' = CampaignResult(TRUE, "Email campaign started successfully", NoResult)
  /\ UNCHANGED <<request, ADVANCED_EMAIL_AVAILABLE, campaignVars, routerVars, classifierVars, agentVars, voiceVars>>

\* api/agents.py 283-308, for an inbox that holds one message
MonitorEmailResponses ==
  /\ bulk.pc # "loop" /\ NoRequestPending
  /\ request' = [op |-> "POST /bulk-email/monitor", prospects |-> <<>>]
  /\ IF ~ADVANCED_EMAIL_AVAILABLE
     THEN /\ response' = CampaignResult(FALSE, "Advanced email agent not available",
                                        NoResult)
          /\ UNCHANGED <<prospect_status, monitored, calls, stats>>
     ELSE \E msg \in Messages :
            /\ prospect_status' = monitor_inbox_for_replies(EmptyStatus, msg).prospect_status
            /\ calls' = monitor_inbox_for_replies(EmptyStatus, msg).calls
            /\ monitored' = msg
            /\ stats' = get_campaign_stats(prospect_status')
            /\ response' = CampaignResult(TRUE, "Inbox monitored and responses processed",
                                          stats')
  /\ UNCHANGED <<bulk, ADVANCED_EMAIL_AVAILABLE, routerVars, classifierVars, agentVars, voiceVars>>

ApiInit ==
  /\ request = NoRequest
  /\ response = NoResult
  /\ ADVANCED_EMAIL_AVAILABLE \in BOOLEAN

\* ------------------------------------------------------------------------
\* Properties of the campaign endpoints
\* ------------------------------------------------------------------------
\* the addresses the send_bulk_emails call of the last /bulk-email/send
\* request recorded as sent
RecordedBySendRequest ==
  IF bulk.agent = "advanced"
  THEN {bulk.prospects[i].email : i \in Range(bulk.successful)}
  ELSE {}

NoLLM == [class |-> "None", model |-> "None", temperature |-> 0]
NoAgent == [kind |-> "none"]
NoCall == [kind |-> "none"]

\* an llm selection that yields no model for an unknown provider
_initialize_llm_lenient(model_provider, temperature) ==
  IF model_provider = "openai"
  THEN [raised |-> NoError,
        llm |-> [class |-> "ChatOpenAI", model |-> "gpt-4-turbo-preview",
                 temperature |-> temperature]]
  ELSE IF model_provider = "anthropic"
  THEN [raised |-> NoError,
        llm |-> [class |-> "ChatAnthropic", model |-> "claude-3-opus-20240229",
                 temperature |-> temperature]]
  ELSE [raised |-> NoError, llm |-> NoLLM]

\* lines 37-51
_initialize_llm(model_provider, temperature) ==
  IF model_provider = "openai"
  THEN [raised |-> NoError,
        llm |-> [class |-> "ChatOpenAI", model |-> "gpt-4-turbo-preview",
                 temperature |-> temperature]]
  ELSE IF model_provider = "anthropic"
  THEN [raised |-> NoError,
        llm |-> [class |-> "ChatAnthropic", model |-> "claude-3-opus-20240229",
                 temperature |-> temperature]]
  ELSE [raised |-> "ValueError", llm |-> NoLLM]

\* lines 53-66, and the override of SalesAgent, lines 111-125: the names of
\* the tools
_initialize_tools(cls) ==
  IF cls = "SalesAgent"
  THEN <<"search_gtm_knowledge", "analyze_conversation",
         "get_customer_profile", "suggest_next_action">>
  ELSE <<"search_gtm_knowledge", "analyze_conversation">>

\* lines 20-35.  retriever_ok: whether GTMRetriever() could be constructed
\* (it opens the Pinecone index and builds the OpenAI embeddings)
AdaptiveAgent__init__(cls, agent_type, model_provider, temperature, enable_memory, retriever_ok) ==
  LET made == _initialize_llm(model_provider, temperature)
  IN IF made.raised # NoError THEN [raised |-> made.raised, agent |-> NoAgent]
     ELSE IF ~retriever_ok THEN [raised |-> "Exception", agent |-> NoAgent]
     ELSE [raised |-> NoError,
           agent |-> [kind |-> "agent", cls |-> cls, agent_type |-> agent_type,
                      model_provider |-> model_provider, temperature |-> temperature,
                      enable_memory |-> enable_memory, llm |-> made.llm,
                      memory |-> IF enable_memory THEN "AdaptiveMemoryService" ELSE "None",
                      tools |-> _initialize_tools(cls)]]

AgentTypes == {"test", "sales", "outbound_email"}
ModelProviders == {"openai", "anthropic", "gemini"}
Temperatures == {0, 7, 10}

\* the arguments a constructor call hands to AdaptiveAgent.__init__: those
\* of the caller for AdaptiveAgent itself, and lines 108-109 and 137-138
\* with the defaults of line 23-25 for the two subclasses
ConstructorCalls ==
  [cls : {"AdaptiveAgent"}, agent_type : AgentTypes, model_provider : ModelProviders,
   temperature : Temperatures, enable_memory : BOOLEAN]
  \cup { [cls |-> "SalesAgent", agent_type |-> "sales", model_provider |-> "openai",
          temperature |-> 7, enable_memory |-> TRUE],
         [cls |-> "OutboundEmailAgent", agent_type |-> "outbound_email",
          model_provider |-> "anthropic", temperature |-> 7, enable_memory |-> TRUE] }

ConstructAgent ==
  /\ \E c \in ConstructorCalls, retriever_ok \in BOOLEAN :
       LET made == AdaptiveAgent__init__(c.cls, c.agent_type, c.model_provider,
                                         c.temperature, c.enable_memory, retriever_ok)
       IN /\ agent_call' = [kind |-> "call", cls |-> c.cls, agent_type |-> c.agent_type,
                            model_provider |-> c.model_provider,
                            temperature |-> c.temperature,
                            enable_memory |-> c.enable_memory,
                            retriever_ok |-> retriever_ok, raised |-> made.raised]
          /\ agent' = made.agent
  /\ UNCHANGED <<routerVars, classifierVars, campaignVars, outreachVars, voiceVars>>

AgentsInit ==
  /\ agent_call = NoCall
  /\ agent = NoAgent

AgentsOff ==
  /\ agent_call = NoCall
  /\ agent = NoAgent

\* C24: every constructed agent is bound to a fixed type and model provider
\* and is usable: a SalesAgent has agent_type "sales" and provider "openai",
\* an OutboundEmailAgent has agent_type "outbound_email" and provider
\* "anthropic", every constructed agent has an LLM and at least one tool,
\* and a construction with a provider other than openai and anthropic
\* raises and yields no agent.
C24_ConstructedAgentsAreBoundAndUsable ==
  /\ agent.kind = "agent" =>
       /\ agent.cls = "SalesAgent"
            => agent.agent_type = "sales" /\ agent.model_provider = "openai"
       /\ agent.cls = "OutboundEmailAgent"
            => agent.agent_type = "outbound_email" /\ agent.model_provider = "anthropic"
       /\ agent.agent_type = agent_call.agent_type
       /\ agent.model_provider = agent_call.model_provider
       /\ agent.llm # NoLLM
       /\ agent.llm.class = IF agent.model_provider = "openai" THEN "ChatOpenAI"
                            ELSE "ChatAnthropic"
       /\ Len(agent.tools) >= 1
  /\ (agent_call.kind = "call" /\ agent_call.model_provider \notin {"openai", "anthropic"})
       => agent = NoAgent /\ agent_call.raised = "ValueError"

C24_Witness ==
  /\ agent.kind = "agent" /\ agent.cls = "SalesAgent"
  /\ agent.agent_type = "sales" /\ agent.model_provider = "openai"
  /\ agent.llm.class = "ChatOpenAI"
  /\ Len(agent.tools) = 4

\* ------------------------------------------------------------------------
\* voice_test_server.py: /voice/process-audio on the global voice_agent.
\* The handlers are coroutines on one event loop: a handler runs from one
\* await to the next without interruption, and at an await any other
\* request may run.
\* ------------------------------------------------------------------------
NoVoiceAgent == [available |-> FALSE, stt_provider |-> "<none>"]

\* lines 33-55: VoiceAIAgent(config) with stt_provider 'whisper'; the
\* constructor falls back to 'google' when the Whisper model cannot be
\* loaded (voice_ai_agent.py 122-128), and an exception leaves voice_agent None
StartupAgents ==
  { NoVoiceAgent,
    [available |-> TRUE, stt_provider |-> "whisper"],
    [available |-> TRUE, stt_provider |-> "google"] }

MaxAudioRequests == 2
AudioRequests == 1..MaxAudioRequests

IdleRequest == [pc |-> "idle", original_provider |-> "<none>", outcome |-> "<none>"]

Ended(outcome) == [pc |-> "done", original_provider |-> "<none>", outcome |-> outcome]

\* lines 168-178: the request arrives; without an agent it is answered 503,
\* otherwise the handler awaits audio_file.read()
ProcessAudioReceive ==
  /\ \E r \in AudioRequests :
       /\ process_audio[r].pc = "idle"
       /\ process_audio' =
            [process_audio EXCEPT ![r] =
               IF voice_agent.available THEN [IdleRequest EXCEPT !.pc = "reading"]
               ELSE Ended("503")]
  /\ UNCHANGED <<voice_agent, startup_stt_provider, routerVars, classifierVars, campaignVars,
                 outreachVars, agentVars>>

\* lines 178-203: read() has returned; data under 100 bytes are answered at
\* once and an exception of read() by the except arm of line 311, otherwise
\* the handler saves the provider, overrides it and awaits wait_for(...)
ProcessAudioOverride ==
  /\ \E r \in AudioRequests, read \in {"audio", "too_small", "error"} :
       /\ process_audio[r].pc = "reading"
       /\ IF read = "audio"
          THEN /\ process_audio' =
                    [process_audio EXCEPT ![r] =
                       [pc |-> "awaiting", original_provider |-> voice_agent.stt_provider,
                        outcome |-> "<none>"]]
               /\ voice_agent' =
                    [voice_agent EXCEPT !.stt_provider = "google"]
          ELSE /\ process_audio' = [process_audio EXCEPT ![r] = Ended(read)]
               /\ UNCHANGED voice_agent
  /\ UNCHANGED <<startup_stt_provider, routerVars, classifierVars, campaignVars,
                 outreachVars, agentVars>>

\* lines 195-225 and the rest of the handler, which has no further await:
\* wait_for returns the result, raises TimeoutError after 15 seconds or is
\* cancelled; the finally arm restores the provider the handler saved
ProcessAudioRestore ==
  /\ \E r \in AudioRequests, outcome \in {"result", "timeout", "cancelled"} :
       /\ process_audio[r].pc = "awaiting"
       /\ voice_agent' =
            [voice_agent EXCEPT !.stt_provider = process_audio[r].original_provider]
       /\ process_audio' = [process_audio EXCEPT ![r] = Ended(outcome)]
  /\ UNCHANGED <<startup_stt_provider, routerVars, classifierVars, campaignVars,
                 outreachVars, agentVars>>

VoiceInit ==
  /\ voice_agent \in StartupAgents
  /\ startup_stt_provider = voice_agent.stt_provider
  /\ process_audio = [r \in AudioRequests |-> IdleRequest]

VoiceOff ==
  /\ voice_agent = NoVoiceAgent
  /\ startup_stt_provider = "<none>"
  /\ process_audio = <<>>

\* C25: /voice/process-audio overrides the shared agent's stt_provider with
\* 'google' for the duration of the request and then restores it: for every
\* interleaving of concurrent requests, once all of them have completed
\* (normally, by timeout or by error) the agent's stt_provider is the one
\* it had before the first of them started.
C25_ProviderRestoredAfterAllRequests ==
  (\A r \in AudioRequests : process_audio[r].pc = "done")
    => voice_agent.stt_provider = startup_stt_provider

\* ------------------------------------------------------------------------
\* Specifications
\* ------------------------------------------------------------------------
InitRouter == RouterInit /\ ClassifierOff /\ CampaignInit /\ OutreachOff /\ AgentsOff /\ VoiceOff
NextRouter == RouteAndProcess
SpecRouter == InitRouter /\ [][NextRouter]_vars

InitClassifier == RouterOff /\ ClassifierInit /\ CampaignInit /\ OutreachOff /\ AgentsOff /\ VoiceOff
NextClassifier == AnalyzeResponse
SpecClassifier == InitClassifier /\ [][NextClassifier]_vars

InitBulk == RouterOff /\ ClassifierOff /\ CampaignInit /\ OutreachOff /\ AgentsOff /\ VoiceOff
NextBulk ==
  \/ AdvSendBulkConnect
  \/ AdvSendBulkIterate
  \/ AdvSendBulkQuit
  \/ SimpleSendBulkBegin
  \/ SimpleSendBulkIterate
  \/ SimpleSendBulkReturn
  \/ GetCampaignStats
SpecBulk == InitBulk /\ [][NextBulk]_vars

InitCampaign == RouterOff /\ ClassifierOff /\ CampaignInit /\ OutreachOff /\ AgentsOff /\ VoiceOff
NextCampaign ==
  \/ AdvSendBulkConnect
  \/ AdvSendBulkIterate
  \/ AdvSendBulkQuit
  \/ MonitorInboxForReplies
  \/ MarkAsUnsubscribed
SpecCampaign == InitCampaign /\ [][NextCampaign]_vars

InitHistory == RouterOff /\ HistoryInit /\ CampaignInit /\ OutreachOff /\ AgentsOff /\ VoiceOff
NextHistory ==
  \/ CampaignSendBulkConnect
  \/ AdvSendBulkIterate
  \/ AdvSendBulkQuit
  \/ MonitorInboxForReplies
  \/ AnalyzeReplyBody
  \/ GetCampaignStats
SpecHistory == InitHistory /\ [][NextHistory]_vars

InitOutreach == RouterOff /\ ClassifierOff /\ CampaignInit /\ OutreachInit /\ AgentsOff /\ VoiceOff
NextOutreach ==
  \/ GenerateEmail
  \/ GeneratePersonalizedEmail
  \/ GenerateOutboundEmail
  \/ PreviewBulkEmailCampaign
SpecOutreach == InitOutreach /\ [][NextOutreach]_vars

InitApi == RouterOff /\ ClassifierOff /\ CampaignInit /\ ApiInit /\ AgentsOff /\ VoiceOff
NextApi ==
  \/ SendBulkEmailCampaign
  \/ AdvSendBulkIterate
  \/ AdvSendBulkQuit
  \/ SendBulkEmailCampaignReturn
  \/ MonitorEmailResponses
SpecApi == InitApi /\ [][NextApi]_vars

InitAgents == RouterOff /\ ClassifierOff /\ CampaignInit /\ OutreachOff /\ AgentsInit /\ VoiceOff
NextAgents == ConstructAgent
SpecAgents == InitAgents /\ [][NextAgents]_vars

InitVoice == RouterOff /\ ClassifierOff /\ CampaignInit /\ OutreachOff /\ AgentsOff /\ VoiceInit
NextVoice ==
  \/ ProcessAudioReceive
  \/ ProcessAudioOverride
  \/ ProcessAudioRestore
SpecVoice == InitVoice /\ [][NextVoice]_vars

====
